---------------------------- MODULE Spec2Model ----------------------------
(***************************************************************************)
(* T-Rex runner, console edition (src/game) and windowed edition           *)
(* (src/scenes): the player state machines, the bounding-box collision     *)
(* test, the console GameEngine and the windowed MainGame, as state        *)
(* machines.                                                               *)
(*                                                                         *)
(* View state (sprites, animation timers, sounds, the terminal) is left    *)
(* out; every field that a guard or an assignment of the game logic reads  *)
(* is kept.                                                                *)
(***************************************************************************)
EXTENDS Integers, Sequences, FiniteSets, TLC

VARIABLES
    \* ---- console Player (src/game/entities/player.py) ----
    player,          \* the Player object: a record
    op,              \* the last operation invoked
    ret,             \* what it returned: "True", "False", "None" or the exception raised
    jump_updates,    \* history: update() calls since the last accepted jump() with no
                     \* other call in between, -1 when no such run is in progress
    \* ---- GameObject.check_collision on two free objects ----
    objA, objB,      \* two game objects
    resAB, resBA,    \* A.check_collision(B), B.check_collision(A): "unset" before the call
    \* ---- console GameEngine (src/game/core/game_engine.py) ----
    engine,          \* the GameEngine singleton: a record of its fields
    loop,            \* "idle": the driver calls the public methods; "run": run() is
                     \* iterating; "exited": run() has returned; "crashed": a call
                     \* raised and the program ended
    \* ---- windowed edition (src/scenes) ----
    game,            \* the MainGame object: a record of its fields and its objects
    \* ---- console engine, difficulty (increase_difficulty, set_difficulty) ----
    difficulty_log,  \* history: the initialize() calls, the public difficulty calls
                     \* and the increases made by ticks since the last initialize()
    \* ---- TokenManager (src/scenes/tokens.py) ----
    token_manager,   \* a TokenManager with the obstacles it is shown
    \* ---- SingletonMeta and GameEngine.get_instance (game_engine.py) ----
    meta,            \* SingletonMeta._instances, the lock and the calling threads
    \* ---- InputHandler (src/game/utils/input_handler.py) ----
    input_handler    \* the key buffer, its lock, the worker and the consumer

vars == <<player, op, ret, jump_updates, objA, objB, resAB, resBA, engine, loop,
          game, difficulty_log, token_manager, meta, input_handler>>

playerVars == <<player, jump_updates>>
collVars   == <<objA, objB, resAB, resBA>>
engineVars == <<engine, loop>>
extraVars  == <<difficulty_log, token_manager, meta, input_handler>>

---------------------------------------------------------------------------
(* Program constants                                                       *)

GRAVITY       == 1
JUMP_VELOCITY == -6
PLAYER_X      == 10
GROUND_Y      == 15
PLAYER_WIDTH  == 2
PLAYER_HEIGHT == 2

RUNNING == "running"
JUMPING == "jumping"
DUCKING == "ducking"

\* Python's None, and the value of a variable the specification at hand leaves unused.
None == [kind |-> "none"]

---------------------------------------------------------------------------
(* GameObject                                                              *)

\* Mutants of check_collision: edges that touch count as overlap; only the
\* caller's own active flag is looked at.
check_collision_touching(self, other) ==
    IF ~(self.active /\ other.active)
    THEN FALSE
    ELSE /\ self.x <= other.x + other.width
         /\ self.x + self.width >= other.x
         /\ self.y <= other.y + other.height
         /\ self.y + self.height >= other.y

check_collision_self_active(self, other) ==
    IF ~self.active
    THEN FALSE
    ELSE /\ self.x < other.x + other.width
         /\ self.x + self.width > other.x
         /\ self.y < other.y + other.height
         /\ self.y + self.height > other.y

\* A.check_collision(B): the early return for an inactive object, then the
\* four strict comparisons of the bounding boxes.
check_collision(self, other) ==
    IF ~(self.active /\ other.active)
    THEN FALSE
    ELSE /\ self.x < other.x + other.width
         /\ self.x + self.width > other.x
         /\ self.y < other.y + other.height
         /\ self.y + self.height > other.y

---------------------------------------------------------------------------
(* Player                                                                  *)

\* Player(x, ground_y): GameObject.__init__ (active, 1x1), then the player's
\* own fields and its 2x2 size.
NewPlayer(x, ground_y) ==
    [kind |-> "player", x |-> x, y |-> ground_y, width |-> PLAYER_WIDTH,
     height |-> PLAYER_HEIGHT, active |-> TRUE, state |-> RUNNING,
     ground_y |-> ground_y, velocity_y |-> 0]

is_on_ground(p) == p.y >= p.ground_y

\* Mutant of jump: the grounded test is dropped and only ducking refuses.
jump_any_time(p) ==
    IF p.state # DUCKING
    THEN [p |-> [p EXCEPT !.state = JUMPING, !.velocity_y = JUMP_VELOCITY],
          ret |-> "True"]
    ELSE [p |-> p, ret |-> "False"]

\* jump(): the player after the call, and the value returned.
jump(p) ==
    IF p.state = RUNNING /\ is_on_ground(p)
    THEN [p |-> [p EXCEPT !.state = JUMPING, !.velocity_y = JUMP_VELOCITY],
          ret |-> "True"]
    ELSE [p |-> p, ret |-> "False"]

\* duck(): the state is assigned first; the next statement reads
\* self.DUCK_SPRITE, an attribute the class does not define (it defines
\* DUCK_SPRITES), so the call raises AttributeError before the height and
\* the position are touched.
duck(p) ==
    IF p.state \in {RUNNING, JUMPING}
    THEN [p |-> [p EXCEPT !.state = DUCKING], ret |-> "AttributeError"]
    ELSE [p |-> p, ret |-> "False"]

stop_ducking(p) ==
    IF p.state = DUCKING /\ is_on_ground(p)
    THEN [p |-> [p EXCEPT !.state = RUNNING, !.height = PLAYER_HEIGHT,
                          !.y = p.ground_y - 1],
          ret |-> "True"]
    ELSE [p |-> p, ret |-> "False"]

\* Mutant of _update_physics: the position moves by the old velocity, gravity
\* is added afterwards.
update_physics_move_first(p) ==
    IF p.state = JUMPING
    THEN LET v == p.velocity_y + GRAVITY
             y == p.y + p.velocity_y
         IN  IF y >= p.ground_y
             THEN [p EXCEPT !.y = p.ground_y, !.velocity_y = 0, !.state = RUNNING]
             ELSE [p EXCEPT !.y = y, !.velocity_y = v]
    ELSE p

\* _update_physics(): gravity and the landing clamp, only while JUMPING.
update_physics(p) ==
    IF p.state = JUMPING
    THEN LET v == p.velocity_y + GRAVITY
             y == p.y + v
         IN  IF y >= p.ground_y
             THEN [p EXCEPT !.y = p.ground_y, !.velocity_y = 0, !.state = RUNNING]
             ELSE [p EXCEPT !.y = y, !.velocity_y = v]
    ELSE p

\* Player.update(): physics; the animation, sprite and statistics steps
\* change view state only.
player_update(p) == update_physics(p)

---------------------------------------------------------------------------
(* The Player driven through its public methods                            *)

\* The run "jump(), then update() only" that jump_updates counts.
TrackJump(r) == IF r.ret = "True" THEN 0 ELSE -1

TrackUpdate(p) ==
    IF jump_updates >= 0 /\ p.state = JUMPING THEN jump_updates + 1 ELSE -1

\* The objects a scenario does not construct.
NoExtras ==
    /\ difficulty_log = None /\ token_manager = None
    /\ meta = None /\ input_handler = None

PlayerInit ==
    /\ player = NewPlayer(PLAYER_X, GROUND_Y)
    /\ op = "init" /\ ret = "None"
    /\ jump_updates = -1
    /\ objA = None /\ objB = None
    /\ resAB = "unset" /\ resBA = "unset"
    /\ engine = None /\ loop = "idle" /\ game = None
    /\ NoExtras

PJump ==
    LET r == jump(player)
    IN  /\ player' = r.p
        /\ op' = "jump" /\ ret' = r.ret
        /\ jump_updates' = TrackJump(r)
        /\ UNCHANGED <<collVars, engineVars, game, extraVars>>

PDuck ==
    LET r == duck(player)
    IN  /\ player' = r.p
        /\ op' = "duck" /\ ret' = r.ret
        /\ jump_updates' = -1
        /\ UNCHANGED <<collVars, engineVars, game, extraVars>>

PStopDucking ==
    LET r == stop_ducking(player)
    IN  /\ player' = r.p
        /\ op' = "stop_ducking" /\ ret' = r.ret
        /\ jump_updates' = -1
        /\ UNCHANGED <<collVars, engineVars, game, extraVars>>

PUpdate ==
    /\ player' = player_update(player)
    /\ op' = "update" /\ ret' = "None"
    /\ jump_updates' = TrackUpdate(player)
    /\ UNCHANGED <<collVars, engineVars, game, extraVars>>

PlayerNext == PJump \/ PDuck \/ PStopDucking \/ PUpdate

SpecPlayer == PlayerInit /\ [][PlayerNext]_vars

---------------------------------------------------------------------------
(* check_collision applied to two arbitrary game objects                   *)

MaxCoord == 2      \* positions range over -1 .. MaxCoord
MaxSize  == 2      \* widths and heights range over 0 .. MaxSize

Objects ==
    [kind : {"object"}, x : -1 .. MaxCoord, y : -1 .. MaxCoord,
     width : 0 .. MaxSize, height : 0 .. MaxSize, active : BOOLEAN]

CollisionInit ==
    /\ objA \in Objects /\ objB \in Objects
    /\ resAB = "unset" /\ resBA = "unset"
    /\ player = None /\ op = "init" /\ ret = "None" /\ jump_updates = -1
    /\ engine = None /\ loop = "idle" /\ game = None
    /\ NoExtras

Bool(b) == IF b THEN "True" ELSE "False"

CheckCollision ==
    /\ resAB = "unset"
    /\ resAB' = Bool(check_collision(objA, objB))
    /\ resBA' = Bool(check_collision(objB, objA))
    /\ op' = "check_collision"
    /\ UNCHANGED <<objA, objB, player, ret, jump_updates, engineVars, game, extraVars>>

CollisionNext == CheckCollision

SpecCollision == CollisionInit /\ [][CollisionNext]_vars

---------------------------------------------------------------------------
(* Console obstacles and their factory                                     *)

CACTUS == "cactus"
BIRD   == "bird"
ROCK   == "rock"
ObstacleTypes == {CACTUS, BIRD, ROCK}

\* DifficultyLevel(min(4, max(1, level)))
MAX_TIER == 4
Tier(level) == IF level < 1 THEN 1 ELSE IF level > MAX_TIER THEN MAX_TIER ELSE level

\* ObstacleFactory._BIRD_HEIGHTS
BIRD_HEIGHTS(d) ==
    CASE d = 1 -> {3, 4}
      [] d = 2 -> {2, 3, 4}
      [] d = 3 -> {2, 3, 4, 5}
      [] OTHER -> {1, 2, 3, 4, 5}

\* A speed formula without the leading 1.
FactorySpeed_scaled(t, d) ==
    LET tenths == CASE t = CACTUS -> 5 [] t = BIRD -> 3 [] OTHER -> 4
    IN  ((d - 1) * tenths) \div 10

\* int(1 + (d - 1) * 0.5), int(1 + (d - 1) * 0.3), int(1 + (d - 1) * 0.4):
\* the factor is taken in tenths and the product truncated.
FactorySpeed(t, d) ==
    LET tenths == CASE t = CACTUS -> 5 [] t = BIRD -> 3 [] OTHER -> 4
    IN  1 + ((d - 1) * tenths) \div 10

\* ObstacleFactory.create_obstacle(t, x, ground_y, difficulty).  _create_cactus
\* passes cactus_type where Cactus expects the size, so every cactus is 1x1 at
\* ground_y - 1; a bird flies fh rows above the ground; Rock places itself at
\* ground_y + 1.
create_obstacle(t, x, ground_y, d, fh) ==
    [kind |-> t, x |-> x,
     y |-> CASE t = CACTUS -> ground_y - 1
             [] t = BIRD   -> ground_y - fh
             [] OTHER      -> ground_y + 1,
     width |-> 1, height |-> 1, active |-> TRUE, speed |-> FactorySpeed(t, d)]

\* Obstacle.update() of a Cactus or a Rock: move_left(), then the off-screen
\* test.  Bird.update() calls Obstacle.update(), whose move_left() is the
\* Bird's last definition: it moves the bird and then reads self._bob_offset,
\* which __init__ never sets, so the call raises AttributeError.
obstacle_update(o) ==
    LET moved == [o EXCEPT !.x = o.x - o.speed]
    IN  IF o.kind = BIRD
        THEN [o |-> moved, raised |-> TRUE]
        ELSE [o |-> IF moved.x + moved.width < 0
                    THEN [moved EXCEPT !.active = FALSE]
                    ELSE moved,
              raised |-> FALSE]

---------------------------------------------------------------------------
(* GameEngine                                                              *)

SCREEN_WIDTH       == 80
SPAWN_INTERVAL     == 60
MIN_SPAWN_INTERVAL == 30
SPAWN_INTERVAL_STEP == 5
SCORE_PERIOD       == 10
DIFFICULTY_STEP    == 100

\* The player's place in _game_objects; obstacles are numbered from 1.
PlayerId == 0

InSeq(seq, x) == \E i \in 1 .. Len(seq) : seq[i] = x

\* list.remove(x): the first occurrence goes.
Remove(seq, x) ==
    IF ~InSeq(seq, x) THEN seq
    ELSE LET i == CHOOSE k \in 1 .. Len(seq) :
                     seq[k] = x /\ \A j \in 1 .. k - 1 : seq[j] # x
         IN  SubSeq(seq, 1, i - 1) \o SubSeq(seq, i + 1, Len(seq))

Range(seq) == {seq[i] : i \in 1 .. Len(seq)}

\* Object identity: the obstacles one of the two lists still refers to are
\* numbered 1, 2, ... in the order they were created; the others are garbage.
Live(e) == (Range(e.game_objects) \cup Range(e.obstacles)) \ {PlayerId}

Rank(e, id) ==
    IF id = PlayerId THEN PlayerId ELSE Cardinality({j \in Live(e) : j <= id})

Normalize(e) ==
    [e EXCEPT !.objs = [k \in 1 .. Cardinality(Live(e)) |->
                           e.objs[CHOOSE j \in Live(e) : Rank(e, j) = k]],
              !.game_objects = [i \in 1 .. Len(e.game_objects) |->
                                   Rank(e, e.game_objects[i])],
              !.obstacles = [i \in 1 .. Len(e.obstacles) |->
                                Rank(e, e.obstacles[i])],
              !.hit = Rank(e, e.hit),
              !.drawn = {Rank(e, j) : j \in e.drawn}]

\* GameEngine.__init__, with the high score read from high_score.txt.
NewEngine(stored) ==
    [running |-> FALSE, paused |-> FALSE, game_over |-> FALSE,
     score |-> 0, high_score |-> stored, game_speed |-> 10,
     difficulty_level |-> 1,
     frame_count |-> 0, last_obstacle_spawn |-> 0,
     obstacle_spawn_interval |-> SPAWN_INTERVAL,
     player |-> None, display |-> FALSE,
     objs |-> <<>>, game_objects |-> <<>>, obstacles |-> <<>>,
     \* What the last operation did: whether it ran the update loop of
     \* _update to its end, the objects that loop dropped, the x of the
     \* obstacles its spawner created, the end_game() calls it made, the
     \* obstacle that ended the game, the obstacles it drew; and the score
     \* the observers got with the last 'game_over'.
     updated |-> FALSE, removed |-> 0, spawned |-> {},
     end_game_calls |-> 0, hit |-> 0, drawn |-> {}, game_over_data |-> -1]

\* A new operation starts: nothing done yet.
Begin(e) ==
    [e EXCEPT !.updated = FALSE, !.removed = 0, !.spawned = {},
              !.end_game_calls = 0, !.hit = 0, !.drawn = {}]

\* initialize(): a new Player, input handler and display, the game state
\* reset, the player first in _game_objects.
initialize(e) ==
    [e EXCEPT !.player = NewPlayer(PLAYER_X, GROUND_Y), !.display = TRUE,
              !.objs = <<>>, !.obstacles = <<>>, !.game_objects = <<PlayerId>>,
              !.score = 0, !.game_speed = 10, !.difficulty_level = 1,
              !.frame_count = 0, !.last_obstacle_spawn = 0]

\* start()
start(e) ==
    [e EXCEPT !.running = TRUE, !.game_over = FALSE, !.paused = FALSE]

\* toggle_pause(), the definition that is in force (the second one).
toggle_pause(e) ==
    IF ~e.game_over THEN [e EXCEPT !.paused = ~e.paused] ELSE e

\* restart(), the definition that is in force (the second one): the state is
\* reset and both lists are cleared, then self._player.reset() is called, a
\* method Player does not have: with a player the call raises AttributeError
\* before the player is put back into _game_objects.
restart(e) ==
    LET e1 == [e EXCEPT !.running = TRUE, !.paused = FALSE, !.game_over = FALSE,
                        !.score = 0, !.frame_count = 0, !.last_obstacle_spawn = 0,
                        !.objs = <<>>, !.obstacles = <<>>, !.game_objects = <<>>]
    IN  [e |-> e1, ret |-> IF e.player # None THEN "AttributeError" ELSE "None"]

NewId(e) == Cardinality(DOMAIN e.objs) + 1

\* add_obstacle(obstacle)
add_obstacle(e, o) ==
    LET id == NewId(e)
    IN  [e EXCEPT !.objs = (id :> o) @@ e.objs,
                  !.obstacles = Append(@, id),
                  !.game_objects = Append(@, id)]

\* add_score(points)
add_score(e, points) == [e EXCEPT !.score = @ + points]

increase_difficulty_unfloored(e) ==
    [e EXCEPT !.difficulty_level = @ + 1, !.game_speed = @ + 1,
              !.obstacle_spawn_interval = @ - SPAWN_INTERVAL_STEP]

Max(a, b) == IF a >= b THEN a ELSE b

\* increase_difficulty(); game_speed is kept in tenths.
increase_difficulty(e) ==
    [e EXCEPT !.difficulty_level = @ + 1, !.game_speed = @ + 1,
              !.obstacle_spawn_interval =
                  Max(MIN_SPAWN_INTERVAL, @ - SPAWN_INTERVAL_STEP)]

\* set_difficulty(difficulty): the spawn interval of the named setting; any
\* other string changes nothing that the game logic reads.
EASY_SPAWN_INTERVAL == 80
HARD_SPAWN_INTERVAL == 40

DifficultyNames == {"easy", "normal", "hard", "other"}

set_difficulty(e, difficulty) ==
    [e EXCEPT !.obstacle_spawn_interval =
        CASE difficulty = "easy"   -> EASY_SPAWN_INTERVAL
          [] difficulty = "normal" -> SPAWN_INTERVAL
          [] difficulty = "hard"   -> HARD_SPAWN_INTERVAL
          [] OTHER                 -> @]

\* end_game(): the flags, the high score, then the 'game_over' notification
\* carrying the score.
end_game(e) ==
    [e EXCEPT !.game_over = TRUE, !.running = FALSE,
              !.high_score = IF e.score > e.high_score THEN e.score ELSE @,
              !.end_game_calls = @ + 1,
              !.game_over_data = e.score]

\* The loop of _update over a copy of _game_objects: update each object and
\* drop it from both lists when it is inactive afterwards.  An exception
\* raised by an update ends the loop and the tick.
RECURSIVE UpdateObjects(_, _)
UpdateObjects(e, todo) ==
    IF todo = <<>> THEN [e |-> [e EXCEPT !.updated = TRUE], raised |-> FALSE]
    ELSE LET id == Head(todo)
         IN  IF id = PlayerId
             THEN LET p  == player_update(e.player)
                      e1 == [e EXCEPT !.player = p]
                      e2 == IF ~p.active
                            THEN [e1 EXCEPT !.game_objects = Remove(@, PlayerId),
                                            !.removed = @ + 1]
                            ELSE e1
                  IN  UpdateObjects(e2, Tail(todo))
             ELSE LET r  == obstacle_update(e.objs[id])
                      e1 == [e EXCEPT !.objs[id] = r.o]
                  IN  IF r.raised THEN [e |-> e1, raised |-> TRUE]
                      ELSE IF ~r.o.active
                      THEN UpdateObjects(
                               [e1 EXCEPT !.game_objects = Remove(@, id),
                                          !.obstacles = Remove(@, id),
                                          !.removed = @ + 1],
                               Tail(todo))
                      ELSE UpdateObjects(e1, Tail(todo))

\* Mutant of the update loop: an inactive obstacle leaves _game_objects only.
RECURSIVE UpdateObjectsKeepObstacles(_, _)
UpdateObjectsKeepObstacles(e, todo) ==
    IF todo = <<>> THEN [e |-> [e EXCEPT !.updated = TRUE], raised |-> FALSE]
    ELSE LET id == Head(todo)
         IN  IF id = PlayerId
             THEN UpdateObjectsKeepObstacles(
                      [e EXCEPT !.player = player_update(e.player)], Tail(todo))
             ELSE LET r  == obstacle_update(e.objs[id])
                      e1 == [e EXCEPT !.objs[id] = r.o]
                  IN  IF r.raised THEN [e |-> e1, raised |-> TRUE]
                      ELSE IF ~r.o.active
                      THEN UpdateObjectsKeepObstacles(
                               [e1 EXCEPT !.game_objects = Remove(@, id),
                                          !.removed = @ + 1],
                               Tail(todo))
                      ELSE UpdateObjectsKeepObstacles(e1, Tail(todo))

update_objects_keep_obstacles(e) == UpdateObjectsKeepObstacles(e, e.game_objects)

\* The update loop of _update, over a copy of _game_objects.
update_objects(e) == UpdateObjects(e, e.game_objects)

\* _spawn_obstacles(): t and fh are the factory's random draws.
spawn_obstacles(e, t, fh) ==
    IF e.frame_count - e.last_obstacle_spawn >= e.obstacle_spawn_interval
    THEN LET o == create_obstacle(t, SCREEN_WIDTH, GROUND_Y,
                                  Tier(e.difficulty_level), fh)
         IN  [add_obstacle(e, o) EXCEPT !.last_obstacle_spawn = e.frame_count,
                                        !.spawned = @ \cup {o.x}]
    ELSE e

\* Mutant of _check_collisions: the loop goes on after end_game().
RECURSIVE CollisionLoopNoBreak(_, _)
CollisionLoopNoBreak(e, i) ==
    IF i > Len(e.obstacles) THEN e
    ELSE LET o == e.objs[e.obstacles[i]]
         IN  IF o.active /\ check_collision(e.player, o)
             THEN CollisionLoopNoBreak(
                      end_game([e EXCEPT !.hit = e.obstacles[i]]), i + 1)
             ELSE CollisionLoopNoBreak(e, i + 1)

check_collisions_no_break(e) ==
    IF e.player = None \/ ~e.player.active THEN e ELSE CollisionLoopNoBreak(e, 1)

\* The loop of _check_collisions: the first active obstacle that overlaps
\* the player ends the game and the loop.
RECURSIVE CollisionLoop(_, _)
CollisionLoop(e, i) ==
    IF i > Len(e.obstacles) THEN e
    ELSE LET o == e.objs[e.obstacles[i]]
         IN  IF o.active /\ check_collision(e.player, o)
             THEN end_game([e EXCEPT !.hit = e.obstacles[i]])
             ELSE CollisionLoop(e, i + 1)

\* _check_collisions()
check_collisions(e) ==
    IF e.player = None \/ ~e.player.active THEN e ELSE CollisionLoop(e, 1)

\* The score and difficulty steps that end _update.
update_score(e) ==
    LET e1 == IF e.frame_count % SCORE_PERIOD = 0 THEN add_score(e, 1) ELSE e
    IN  IF /\ e1.score > 0 /\ e1.score % DIFFICULTY_STEP = 0
           /\ e1.score \div DIFFICULTY_STEP > e1.difficulty_level - 1
        THEN increase_difficulty(e1)
        ELSE e1

\* _update(): objects, spawn, collisions, score, difficulty.
update_tick(e, t, fh) ==
    LET u == update_objects(e)
    IN  IF u.raised THEN u
        ELSE [e |-> update_score(check_collisions(spawn_obstacles(u.e, t, fh))),
              raised |-> FALSE]

\* update(), the public method.
update(e, t, fh) ==
    IF ~e.paused /\ ~e.game_over THEN update_tick(e, t, fh)
    ELSE [e |-> e, raised |-> FALSE]

\* _render(): the obstacles handed to the display.
render_frame(e) ==
    IF ~e.display THEN e
    ELSE [e EXCEPT !.drawn = {id \in Range(e.obstacles) : e.objs[id].active}]

\* render(), the public method.
render(e) == IF e.display THEN render_frame(e) ELSE e

\* _handle_input() of run(): one key, or none.
Keys == {"none", "space", "down", "q", "p"}

handle_input(e, key) ==
    IF e.player = None THEN [e |-> e, raised |-> FALSE]
    ELSE CASE key = "space" ->
                [e |-> [e EXCEPT !.player = jump(e.player).p], raised |-> FALSE]
           [] key = "down" ->
                [e |-> [e EXCEPT !.player = duck(e.player).p],
                 raised |-> duck(e.player).ret = "AttributeError"]
           [] key = "q" -> [e |-> [e EXCEPT !.running = FALSE], raised |-> FALSE]
           [] key = "p" -> [e |-> [e EXCEPT !.paused = ~e.paused], raised |-> FALSE]
           [] OTHER -> [e |-> e, raised |-> FALSE]

\* One iteration of the loop of run(): input, update unless paused, render,
\* the frame counted.  An exception leaves the loop at once.
run_iteration(e, key, t, fh) ==
    LET h == handle_input(e, key)
        u == IF h.raised THEN h
             ELSE IF ~h.e.paused THEN update_tick(h.e, t, fh)
             ELSE h
    IN  IF u.raised THEN u
        ELSE [e |-> [render_frame(u.e) EXCEPT !.frame_count = @ + 1],
              raised |-> FALSE]

---------------------------------------------------------------------------
(* The console engine as a state machine: the public methods called by a   *)
(* driver such as run_game_loop of main.py, and run().  The driver, like   *)
(* run_game_loop, does not catch what a call raises: main() reports the    *)
(* error and the program ends (loop = "crashed").  run() catches what its   *)
(* iterations raise and returns (loop = "exited").                         *)

Outcome(raised) == IF raised THEN "crashed" ELSE "idle"

MaxScore     == 3     \* update() is called while the score is below this
MaxObstacles == 2     \* obstacles added through add_obstacle()
MaxFrames    == 62    \* frames run() is followed for
MaxStored    == 1     \* the high score found in high_score.txt: 0 or this

\* Where add_obstacle() is handed an obstacle: leaving the screen, on the
\* player, ahead of the player.
AddXs == {11}

\* How high above the ground add_obstacle()'s birds fly.
AddHeights == {4}

FlightHeights(t, d) == IF t = BIRD THEN BIRD_HEIGHTS(d) ELSE {0}

nonEngineVars == <<player, jump_updates, collVars, game, extraVars>>

EngineInit ==
    /\ engine \in {NewEngine(h) : h \in {0, MaxStored}}
    /\ loop = "idle"
    /\ op = "init" /\ ret = "None"
    /\ player = None /\ jump_updates = -1
    /\ objA = None /\ objB = None /\ resAB = "unset" /\ resBA = "unset"
    /\ game = None
    /\ NoExtras

Initialize ==
    /\ engine # None /\ loop \in {"idle", "exited"}
    /\ engine' = initialize(Begin(engine))
    /\ loop' = "idle" /\ op' = "initialize" /\ ret' = "True"
    /\ UNCHANGED nonEngineVars

Start ==
    /\ engine # None /\ loop = "idle"
    /\ engine' = start(Begin(engine))
    /\ op' = "start" /\ ret' = "None"
    /\ UNCHANGED <<loop, nonEngineVars>>

TogglePause ==
    /\ engine # None /\ loop = "idle"
    /\ engine' = toggle_pause(Begin(engine))
    /\ op' = "toggle_pause" /\ ret' = "None"
    /\ UNCHANGED <<loop, nonEngineVars>>

Restart ==
    /\ engine # None /\ loop \in {"idle", "exited"}
    /\ LET r == restart(Begin(engine))
       IN  /\ engine' = r.e /\ ret' = r.ret
           /\ loop' = Outcome(r.ret = "AttributeError")
    /\ op' = "restart"
    /\ UNCHANGED nonEngineVars

Update ==
    /\ engine # None /\ loop = "idle"
    /\ engine.score < MaxScore
    /\ \E t \in ObstacleTypes :
         \E fh \in FlightHeights(t, Tier(engine.difficulty_level)) :
           LET r == update(Begin(engine), t, fh)
           IN  /\ engine' = Normalize(r.e)
               /\ ret' = IF r.raised THEN "AttributeError" ELSE "None"
               /\ loop' = Outcome(r.raised)
    /\ op' = "update"
    /\ UNCHANGED nonEngineVars

Render ==
    /\ engine # None /\ loop = "idle"
    /\ engine' = render(Begin(engine))
    /\ op' = "render" /\ ret' = "None"
    /\ UNCHANGED <<loop, nonEngineVars>>

AddObstacle ==
    /\ engine # None /\ loop = "idle"
    /\ Len(engine.obstacles) < MaxObstacles
    /\ \E t \in ObstacleTypes, x \in AddXs :
         \E fh \in (IF t = BIRD THEN AddHeights ELSE {0}) :
           engine' = add_obstacle(Begin(engine),
                                  create_obstacle(t, x, GROUND_Y, 1, fh))
    /\ op' = "add_obstacle" /\ ret' = "None"
    /\ UNCHANGED <<loop, nonEngineVars>>

\* obstacle.set_active(False) on an obstacle the engine holds.
SetInactive ==
    /\ engine # None /\ loop = "idle"
    /\ \E id \in Range(engine.obstacles) :
         /\ engine.objs[id].active
         /\ engine' = [Begin(engine) EXCEPT !.objs[id].active = FALSE]
    /\ op' = "set_active" /\ ret' = "None"
    /\ UNCHANGED <<loop, nonEngineVars>>

\* game.player.jump() and game.player.duck(), as run_game_loop calls them.
EJump ==
    /\ engine # None /\ loop = "idle" /\ engine.player # None
    /\ LET r == jump(engine.player)
       IN  engine' = [Begin(engine) EXCEPT !.player = r.p] /\ ret' = r.ret
    /\ op' = "player.jump"
    /\ UNCHANGED <<loop, nonEngineVars>>

EDuck ==
    /\ engine # None /\ loop = "idle" /\ engine.player # None
    /\ LET r == duck(engine.player)
       IN  /\ engine' = [Begin(engine) EXCEPT !.player = r.p] /\ ret' = r.ret
           /\ loop' = Outcome(r.ret = "AttributeError")
    /\ op' = "player.duck"
    /\ UNCHANGED nonEngineVars

\* run() entered on a freshly initialised engine that is not running.
RunStart ==
    /\ engine # None /\ loop = "idle"
    /\ ~engine.running
    /\ engine.player # None /\ engine.game_objects = <<PlayerId>>
    /\ engine.frame_count = 0 /\ engine.score = 0
    /\ engine' = [Begin(engine) EXCEPT !.running = TRUE, !.game_over = FALSE]
    /\ loop' = "run" /\ op' = "run" /\ ret' = "None"
    /\ UNCHANGED nonEngineVars

\* One iteration of run(), and the loop's end (the finally clause) when the
\* iteration raised, stopped or ended the game.
RunTick ==
    /\ engine # None /\ loop = "run"
    /\ engine.frame_count < MaxFrames
    /\ \E key \in Keys, t \in ObstacleTypes :
         \E fh \in FlightHeights(t, Tier(engine.difficulty_level)) :
           LET r  == run_iteration(Begin(engine), key, t, fh)
               go == ~r.raised /\ r.e.running /\ ~r.e.game_over
           IN  /\ engine' = Normalize(IF go THEN r.e
                                         ELSE [r.e EXCEPT !.running = FALSE])
               /\ loop' = IF go THEN "run" ELSE "exited"
               /\ ret' = IF r.raised THEN "AttributeError" ELSE "None"
    /\ op' = "run_iteration"
    /\ UNCHANGED nonEngineVars

EngineNext ==
    \/ Initialize \/ Start \/ TogglePause \/ Restart
    \/ Update \/ Render \/ AddObstacle \/ SetInactive
    \/ EJump \/ EDuck
    \/ RunStart \/ RunTick

SpecEngine == EngineInit /\ [][EngineNext]_vars

---------------------------------------------------------------------------
(* The windowed edition (src/scenes).  Its floats are kept exactly:        *)
(* delta_time is a whole number of milliseconds, as clock.tick(60)         *)
(* returns it; the dino's velocity is in 1/10 px/s and its y in 1/10000    *)
(* px, so that velocity += GRAVITY * dt and y += velocity * dt are         *)
(* integer steps.  Score, speeds and obstacle x are in thousandths,        *)
(* truncated where the float would carry further digits.                   *)

SCREEN_W            == 1152
SCREEN_H            == 648
GROUND_IMAGE_HEIGHT == 100
GROUND_OFFSET       == 40
DINO_START_X        == 150
DINO_HEIGHT         == 192
DINO_GRAVITY        == 4500
JUMP_SPEED          == -1500
START_SPEED         == 200
MAX_SPEED           == 1000
SPEED_MODIFIER      == 50
MAX_DIFFICULTY      == 2
CAMERA_OFFSET       == 200
SPEED_MULTIPLIER    == 3
BIRD_Y              == 400
BIRD_SIZE           == 96
GROUND_OBSTACLE_SIZE == 48
RUN_RECT_W          == 80
RUN_RECT_H          == 128
DUCK_RECT_H         == 112
RECT_OFFSET         == 8
MIN_SPACING         == 175
MAX_SPACING         == 350

\* Background.get_ground_y()
W_GROUND_Y == SCREEN_H - GROUND_IMAGE_HEIGHT

Min(a, b) == IF a <= b THEN a ELSE b

\* Dino.__init__, as MainGame.__init__ places it.
NewDino ==
    [x |-> DINO_START_X, y |-> (W_GROUND_Y - GROUND_OFFSET) * 10000,
     vy |-> 0, state |-> "idle", on_ground |-> TRUE]

\* Dino.update(delta_time, game_running, ground_y): gravity, the ground
\* test and clamp, the keys held, then GameObject.update: position +=
\* velocity * delta_time.
dino_update(d, ms, game_running, ground_y, key) ==
    LET v1 == d.vy + (DINO_GRAVITY * ms) \div 100
        ground_surface == (ground_y - DINO_HEIGHT \div 2) * 10000
        landed == d.y >= ground_surface
        y1 == IF landed THEN ground_surface ELSE d.y
        jumps == landed /\ game_running /\ key = "space"
        v2 == IF jumps THEN JUMP_SPEED * 10 ELSE IF landed THEN 0 ELSE v1
    IN  [d EXCEPT !.y = y1 + v2 * ms,
                  !.vy = v2,
                  !.on_ground = landed,
                  !.state = IF ~landed \/ jumps THEN "jump"
                            ELSE IF ~game_running THEN "idle"
                            ELSE IF key = "down" THEN "duck" ELSE "run"]

\* A pygame Rect as left, top, width, height, from its centre.
Rect(cx, cy, w, h) ==
    [left |-> cx - w \div 2, top |-> cy - h \div 2, w |-> w, h |-> h]

\* Rect.colliderect
colliderect(a, b) ==
    /\ a.w > 0 /\ a.h > 0 /\ b.w > 0 /\ b.h > 0
    /\ a.left < b.left + b.w /\ a.left + a.w > b.left
    /\ a.top < b.top + b.h /\ a.top + a.h > b.top

\* Floor of a value kept in 1/unit.
Floor(v, unit) == IF v >= 0 THEN v \div unit ELSE -((-v + unit - 1) \div unit)

\* Dino.get_collision_rect()
get_collision_rect(d) ==
    IF d.state = "duck"
    THEN Rect(d.x - RECT_OFFSET, Floor(d.y, 10000) + RECT_OFFSET,
              RUN_RECT_W, DUCK_RECT_H)
    ELSE Rect(d.x - RECT_OFFSET, Floor(d.y, 10000), RUN_RECT_W, RUN_RECT_H)

\* ObstacleFactory.create_ground_obstacle placed by _generate_obstacles, and
\* ObstacleFactory.create_bird.  The three ground sprites are taken to be
\* 16x16 images, drawn at scale 3.
create_windowed_obstacle(kind, obs_x) ==
    IF kind = "bird"
    THEN [kind |-> "bird", x |-> obs_x, y |-> BIRD_Y, size |-> BIRD_SIZE]
    ELSE [kind |-> "ground", x |-> obs_x,
          y |-> W_GROUND_Y - GROUND_OBSTACLE_SIZE \div 2,
          size |-> GROUND_OBSTACLE_SIZE]

obstacle_rect(o) == Rect(Floor(o.x, 1000), o.y, o.size, o.size)

\* Obstacle.update(delta_time, speed): Bird.update sets half the speed and
\* then calls this one, which sets the full speed again.
windowed_obstacle_update(o, ms, speed) ==
    [o EXCEPT !.x = o.x - (speed * SPEED_MULTIPLIER * ms) \div 1000]

\* Mutant of _generate_obstacles: every obstacle is placed after the last one.
generate_obstacles_after_last(m, score, spacing, kind) ==
    IF m.obstacles = <<>> \/ m.last_obstacle_x < SCREEN_W * 1000 + score
    THEN LET obs_x == m.last_obstacle_x + spacing * 1000
         IN  [m EXCEPT !.obstacles = Append(@, create_windowed_obstacle(kind, obs_x)),
                       !.last_obstacle_x = obs_x,
                       !.generated = @ \cup {obs_x}]
    ELSE m

\* ObstacleManager._generate_obstacles(score, difficulty, camera_x): spacing
\* and kind are its random draws.
generate_obstacles(m, score, spacing, kind) ==
    IF m.obstacles = <<>> \/ m.last_obstacle_x < SCREEN_W * 1000 + score
    THEN LET obs_x == IF m.last_obstacle_x = 0
                      THEN SCREEN_W * 1000 + score + spacing * 750
                      ELSE m.last_obstacle_x + spacing * 1000
         IN  [m EXCEPT !.obstacles = Append(@, create_windowed_obstacle(kind, obs_x)),
                       !.last_obstacle_x = obs_x,
                       !.generated = @ \cup {obs_x}]
    ELSE m

\* ObstacleManager.update(delta_time, speed, score, difficulty, camera_x)
obstacle_manager_update(m, ms, speed, score, camera_x, spacing, kind) ==
    LET moved == [i \in 1 .. Len(m.obstacles) |->
                     windowed_obstacle_update(m.obstacles[i], ms, speed)]
        OnScreen(o) == ~(o.x < (camera_x - SCREEN_W) * 1000)
        kept == SelectSeq(moved, OnScreen)
    IN  generate_obstacles([m EXCEPT !.obstacles = kept,
                                     !.removals = @ + Len(moved) - Len(kept)],
                           score, spacing, kind)

\* ObstacleManager.clear()
obstacle_manager_clear(m) ==
    [m EXCEPT !.obstacles = <<>>, !.last_obstacle_x = 0, !.removals = 0]

\* ObstacleManager.check_collision(dino)
manager_check_collision(m, d) ==
    \E i \in 1 .. Len(m.obstacles) :
        colliderect(get_collision_rect(d), obstacle_rect(m.obstacles[i]))

---------------------------------------------------------------------------
(* TokenManager (src/scenes/tokens.py): coins and powerups.  Token x is    *)
(* kept in thousandths like obstacle x; the timers are in milliseconds.    *)

TOKEN_BOX_HALF              == 20
TOKEN_BOX                   == 40
MIN_DISTANCE_FROM_OBSTACLES == 150
VERTICAL_SAFE_ZONE          == 80
MAX_ATTEMPTS                == 10
COIN_MIN_OFFSET             == 100
COIN_MAX_OFFSET             == 300
COIN_FALLBACK_MIN           == 400
COIN_FALLBACK_MAX           == 600
POWERUP_MIN_OFFSET          == 200
POWERUP_MAX_OFFSET          == 500
POWERUP_FALLBACK_MIN        == 600
POWERUP_FALLBACK_MAX        == 800
HALFSPEED_MIN_SCORE         == 400
GODMODE_MIN_SCORE           == 1000
POWERUP_DURATION            == 10000
GODMODE_DURATION            == 8000
MIN_SPAWN_INTERVAL_MS       == 3000
MAX_SPAWN_INTERVAL_MS       == 8000
MIN_POWERUP_INTERVAL_MS     == 15000
MAX_POWERUP_INTERVAL_MS     == 30000

\* TokenManager.token_heights
token_heights == {W_GROUND_Y - 50, W_GROUND_Y - 150, W_GROUND_Y - 250}

PowerupTypes == {"doublegold", "halfspeed", "godmode"}

\* Token.__init__: value and effect duration by type.
token_value(token_type) == IF token_type = "coin" THEN 1 ELSE 0

token_duration(token_type) ==
    CASE token_type = "godmode" -> GODMODE_DURATION
      [] token_type \in {"halfspeed", "doublegold"} -> POWERUP_DURATION
      [] OTHER -> 0

NewToken(x, y, token_type) ==
    [token_type |-> token_type, x |-> x * 1000, y |-> y, initial_y |-> y,
     collected |-> FALSE]

\* What the last spawn_coin / spawn_powerup call did: the candidate x it
\* rejected, whether it fell back, the tokens it appended.
NoSpawn == [kind |-> "none", tried |-> {}, fallback |-> FALSE, appended |-> 0]

\* TokenManager.__init__ with the two random.uniform draws, in milliseconds.
NewTokenManager(next_spawn_time, next_powerup_time) ==
    [tokens |-> <<>>,
     spawn_timer |-> 0, next_spawn_time |-> next_spawn_time,
     powerup_spawn_timer |-> 0, next_powerup_time |-> next_powerup_time,
     last |-> NoSpawn]

\* Rect.inflate(x, y)
inflate(r, dx, dy) ==
    [left |-> r.left - dx \div 2, top |-> r.top - dy \div 2,
     w |-> r.w + dx, h |-> r.h + dy]

\* is_safe_spawn_position(x, y, obstacle_manager)
is_safe_spawn_position(x, y, obstacle_manager) ==
    IF obstacle_manager = None THEN TRUE
    ELSE LET token_rect == [left |-> x - TOKEN_BOX_HALF, top |-> y - TOKEN_BOX_HALF,
                            w |-> TOKEN_BOX, h |-> TOKEN_BOX]
         IN  \A i \in 1 .. Len(obstacle_manager.obstacles) :
                LET rect == obstacle_rect(obstacle_manager.obstacles[i])
                IN  (rect.w > 0 /\ rect.h > 0) =>
                       ~colliderect(token_rect,
                                    inflate(rect, MIN_DISTANCE_FROM_OBSTACLES * 2,
                                            VERTICAL_SAFE_ZONE * 2))

\* Mutant of the spawn loop: the first candidate is taken as it comes.
SpawnLoopUnchecked(tm, base, obstacle_manager, draws, attempts, token_type) ==
    IF attempts >= MAX_ATTEMPTS THEN [tm |-> tm, placed |-> FALSE]
    ELSE LET x == base + draws[attempts + 1].dx
             y == draws[attempts + 1].y
         IN  [tm |-> [tm EXCEPT !.tokens = Append(@, NewToken(x, y, token_type)),
                                !.last.appended = @ + 1],
              placed |-> TRUE]

\* The loop of spawn_coin and spawn_powerup: up to max_attempts candidates,
\* draws[k] being the k-th randint / random.choice pair.
RECURSIVE SpawnLoop(_, _, _, _, _, _)
SpawnLoop(tm, base, obstacle_manager, draws, attempts, token_type) ==
    IF attempts >= MAX_ATTEMPTS THEN [tm |-> tm, placed |-> FALSE]
    ELSE LET x == base + draws[attempts + 1].dx
             y == draws[attempts + 1].y
         IN  IF obstacle_manager = None
                \/ is_safe_spawn_position(x, y, obstacle_manager)
             THEN [tm |-> [tm EXCEPT !.tokens = Append(@, NewToken(x, y, token_type)),
                                     !.last.appended = @ + 1],
                   placed |-> TRUE]
             ELSE SpawnLoop([tm EXCEPT !.last.tried = @ \cup {x}], base,
                            obstacle_manager, draws, attempts + 1, token_type)

\* The token placed when no candidate was safe.
spawn_fallback(tm, base, fb, token_type) ==
    [tm EXCEPT !.tokens = Append(@, NewToken(base + fb.dx, fb.y, token_type)),
               !.last.fallback = TRUE,
               !.last.appended = @ + 1]

spawn_coin_unchecked(tm, camera_x, obstacle_manager, draws, fb) ==
    LET base == camera_x + SCREEN_W
        t0 == [tm EXCEPT !.last = [NoSpawn EXCEPT !.kind = "coin"]]
        r == SpawnLoopUnchecked(t0, base, obstacle_manager, draws, 0, "coin")
    IN  IF r.placed THEN r.tm ELSE spawn_fallback(r.tm, base, fb, "coin")

\* spawn_coin(camera_x, obstacle_manager)
spawn_coin(tm, camera_x, obstacle_manager, draws, fb) ==
    LET base == camera_x + SCREEN_W
        t0 == [tm EXCEPT !.last = [NoSpawn EXCEPT !.kind = "coin"]]
        r == SpawnLoop(t0, base, obstacle_manager, draws, 0, "coin")
    IN  IF r.placed THEN r.tm ELSE spawn_fallback(r.tm, base, fb, "coin")

\* clear(), with its two random.uniform draws.
token_manager_clear(tm, next_spawn_time, next_powerup_time) ==
    [tm EXCEPT !.tokens = <<>>, !.spawn_timer = 0, !.powerup_spawn_timer = 0,
               !.next_spawn_time = next_spawn_time,
               !.next_powerup_time = next_powerup_time,
               !.last = NoSpawn]

\* Mutant of available_powerups: halfspeed is offered at any score.
available_powerups_ungated(score, doublegold_roll, godmode_roll) ==
    (IF doublegold_roll THEN {"doublegold"} ELSE {})
    \cup {"halfspeed"}
    \cup (IF score >= GODMODE_MIN_SCORE * 1000 /\ godmode_roll
          THEN {"godmode"} ELSE {})

\* spawn_powerup: the powerups available at this score with these two
\* random.random() draws (score in thousandths).
available_powerups(score, doublegold_roll, godmode_roll) ==
    (IF doublegold_roll THEN {"doublegold"} ELSE {})
    \cup (IF score >= HALFSPEED_MIN_SCORE * 1000 THEN {"halfspeed"} ELSE {})
    \cup (IF score >= GODMODE_MIN_SCORE * 1000 /\ godmode_roll
          THEN {"godmode"} ELSE {})

\* spawn_powerup(camera_x, score, obstacle_manager); powerup_type is the
\* random.choice among the available ones.
spawn_powerup(tm, camera_x, available, powerup_type, obstacle_manager, draws, fb) ==
    LET base == camera_x + SCREEN_W
        t0 == [tm EXCEPT !.last = [NoSpawn EXCEPT !.kind = "powerup"]]
    IN  IF available = {} THEN t0
        ELSE LET r == SpawnLoop(t0, base, obstacle_manager, draws, 0, powerup_type)
             IN  IF r.placed THEN r.tm
                 ELSE spawn_fallback(r.tm, base, fb, powerup_type)

TOKEN_SPEED_MULTIPLIER == 3
TOKEN_SIZE             == 24
TOKEN_OFF_SCREEN       == 100
BOB_AMPLITUDE          == 5

\* Token.update(delta_time, speed): the move to the left, and the bobbing,
\* bob being bob_amplitude times the sine of the token's phase.
token_update(t, ms, speed, bob) ==
    IF t.collected THEN t
    ELSE [t EXCEPT !.x = @ - (speed * TOKEN_SPEED_MULTIPLIER * ms) \div 1000,
                   !.y = t.initial_y + bob]

\* Token.is_off_screen(camera_x, screen_width)
is_off_screen(t, camera_x) == t.x < (camera_x - TOKEN_OFF_SCREEN) * 1000

\* max(0.5, 1.0 - difficulty * 0.2), in tenths
difficulty_factor(difficulty) == Max(5, 10 - 2 * difficulty)

\* random.choice(available_powerups): the list is built in the order
\* doublegold, halfspeed, godmode; pick is its first or its last element.
pick_powerup(available, pick) ==
    LET InList(t) == t \in available
        list == SelectSeq(<<"doublegold", "halfspeed", "godmode">>, InList)
    IN  IF list = <<>> THEN "none"
        ELSE IF pick = "first" THEN list[1] ELSE list[Len(list)]

\* TokenManager.update(delta_time, speed, score, difficulty, camera_x,
\* obstacle_manager).  td holds the random draws of the call: the coin and
\* powerup candidates, whether the next coin interval is the shortest or
\* the longest, the next powerup interval, the powerup rolls and pick, and the bob.
token_manager_update(tm, ms, speed, score, difficulty, camera_x, obstacle_manager, td) ==
    LET t0 == [tm EXCEPT !.last = NoSpawn, !.spawn_timer = @ + ms]
        t1 == IF t0.spawn_timer >= t0.next_spawn_time
              THEN [spawn_coin(t0, camera_x, obstacle_manager,
                               td.coin_draws, td.coin_fallback)
                    EXCEPT !.spawn_timer = 0,
                           !.next_spawn_time =
                              (td.spawn_interval * difficulty_factor(difficulty))
                                 \div 10]
              ELSE t0
        t2 == [t1 EXCEPT !.powerup_spawn_timer = @ + ms]
        available == available_powerups(score, td.doublegold_roll, td.godmode_roll)
        t3 == IF t2.powerup_spawn_timer >= t2.next_powerup_time
              THEN [spawn_powerup(t2, camera_x, available,
                                  pick_powerup(available, td.powerup_pick),
                                  obstacle_manager,
                                  td.powerup_draws, td.powerup_fallback)
                    EXCEPT !.powerup_spawn_timer = 0,
                           !.next_powerup_time = td.powerup_interval]
              ELSE t2
        moved == [i \in 1 .. Len(t3.tokens) |->
                     token_update(t3.tokens[i], ms, speed, td.bob)]
        OnScreen(t) == ~is_off_screen(t, camera_x)
    IN  [t3 EXCEPT !.tokens = SelectSeq(moved, OnScreen)]

\* GameObject.get_rect() of a token and of the dino: the sprite's rect.  The
\* token sprites are taken to be 24x24 images, drawn at scale 1.
token_rect(t) == Rect(Floor(t.x, 1000), t.y, TOKEN_SIZE, TOKEN_SIZE)

dino_rect(d) == Rect(d.x, Floor(d.y, 10000), DINO_HEIGHT, DINO_HEIGHT)

\* GameObject.collides_with(other), for a token and the dino
collides_with(t, d) == colliderect(token_rect(t), dino_rect(d))

\* Token.collect(): the token is marked collected; the dict returned, with
\* the token as it is afterwards.
token_collect(t) ==
    [token |-> [t EXCEPT !.collected = TRUE],
     value |-> token_value(t.token_type),
     effect |-> IF t.token_type = "coin" THEN "None" ELSE t.token_type,
     duration |-> token_duration(t.token_type),
     type |-> t.token_type]

\* One pass of check_collision's loop over the tokens of `pending`, with
\* `acc` holding self.tokens and the three local lists.
collect_token(acc, token) ==
    LET data == token_collect(token)
    IN  [tokens |-> Remove(acc.tokens, token),
         coin_value |-> IF data.type = "coin"
                        THEN acc.coin_value + data.value ELSE acc.coin_value,
         powerup_effects |-> IF data.type = "coin" THEN acc.powerup_effects
                             ELSE Append(acc.powerup_effects, data.effect),
         collected_items |-> Append(acc.collected_items, data)]

\* check_collision with the loop running over self.tokens itself instead
\* of a copy: after a removal the iterator skips the element that moved
\* into the freed slot.
RECURSIVE CheckCollisionLive(_, _, _)
CheckCollisionLive(i, d, acc) ==
    IF i > Len(acc.tokens) THEN acc
    ELSE LET token == acc.tokens[i]
         IN  IF ~token.collected /\ collides_with(token, d)
             THEN CheckCollisionLive(i + 1, d, collect_token(acc, token))
             ELSE CheckCollisionLive(i + 1, d, acc)

token_check_collision_live(tm, d) ==
    LET r == CheckCollisionLive(1, d, [tokens |-> tm.tokens, coin_value |-> 0,
                                       powerup_effects |-> <<>>,
                                       collected_items |-> <<>>])
    IN  [tm |-> [tm EXCEPT !.tokens = r.tokens],
         coin_value |-> r.coin_value,
         powerup_effects |-> r.powerup_effects,
         collected_items |-> r.collected_items]

\* `for token in self.tokens[:]`: the loop over the copy.
RECURSIVE CheckCollisionLoop(_, _, _)
CheckCollisionLoop(pending, d, acc) ==
    IF pending = <<>> THEN acc
    ELSE LET token == Head(pending)
         IN  IF ~token.collected /\ collides_with(token, d)
             THEN CheckCollisionLoop(Tail(pending), d, collect_token(acc, token))
             ELSE CheckCollisionLoop(Tail(pending), d, acc)

\* TokenManager.check_collision(dino): the tokens the dino touches are
\* collected and removed; the coin value and the effects of the powerups
\* collected are returned (collected_items is the local list of the dicts).
token_check_collision(tm, d) ==
    LET r == CheckCollisionLoop(tm.tokens, d,
                                [tokens |-> tm.tokens, coin_value |-> 0,
                                 powerup_effects |-> <<>>,
                                 collected_items |-> <<>>])
    IN  [tm |-> [tm EXCEPT !.tokens = r.tokens],
         coin_value |-> r.coin_value,
         powerup_effects |-> r.powerup_effects,
         collected_items |-> r.collected_items]

\* Mutant of update_powerups: an expired doublegold leaves the multiplier.
update_powerups_keep_multiplier(g, ms) ==
    LET expired == {n \in DOMAIN g.active_powerups : g.active_powerups[n] - ms <= 0}
    IN  [g EXCEPT !.active_powerups =
                     [n \in DOMAIN g.active_powerups \ expired |->
                         g.active_powerups[n] - ms]]

\* MainGame.update_powerups(delta_time): the timers count down; an expired
\* powerup is deleted, and doublegold resets the coin multiplier.
update_powerups(g, ms) ==
    LET expired == {n \in DOMAIN g.active_powerups : g.active_powerups[n] - ms <= 0}
    IN  [g EXCEPT !.active_powerups =
                     [n \in DOMAIN g.active_powerups \ expired |->
                         g.active_powerups[n] - ms],
                  !.coin_multiplier = IF "doublegold" \in expired THEN 1 ELSE @]

\* An activation that adds the duration to the time an active effect has left.
activate_powerup_additive(g, effect, duration) ==
    LET left == IF effect \in DOMAIN g.active_powerups
                THEN g.active_powerups[effect] ELSE 0
    IN  CASE effect = "halfspeed" ->
               [g EXCEPT !.active_powerups = ("halfspeed" :> left + duration) @@ @]
          [] effect = "doublegold" ->
               [g EXCEPT !.active_powerups = ("doublegold" :> left + duration) @@ @,
                         !.coin_multiplier = @ + 1,
                         !.doublegold_clock = 0]
          [] OTHER -> g

\* MainGame.activate_powerup(effect, duration, powerup_type)
activate_powerup(g, effect, duration) ==
    CASE effect = "halfspeed" ->
           [g EXCEPT !.active_powerups = ("halfspeed" :> duration) @@ @]
      [] effect = "doublegold" ->
           [g EXCEPT !.active_powerups = ("doublegold" :> duration) @@ @,
                     !.coin_multiplier = 2,
                     !.doublegold_clock = 0]
      [] OTHER -> g

RECURSIVE ActivateAll(_, _)
ActivateAll(g, effects) ==
    IF effects = <<>> THEN g
    ELSE ActivateAll(activate_powerup(g, Head(effects), token_duration(Head(effects))),
                     Tail(effects))

\* MainGame.__init__ on a machine whose frames take ms milliseconds, with
\* the high score load_high_score() found; the token manager's first
\* intervals are the longest ones.
NewGame(ms, stored) ==
    [running |-> TRUE, game_running |-> FALSE, game_over_visible |-> FALSE,
     score |-> 0, high_score |-> stored,
     token_score |-> 0, coin_multiplier |-> 1,
     active_powerups |-> [n \in {} |-> 0],
     tokens |-> NewTokenManager(MAX_SPAWN_INTERVAL_MS, MAX_POWERUP_INTERVAL_MS),
     \* the coin value collected during the last frame, and the running
     \* milliseconds since doublegold was last activated (-1: never in this
     \* game), counted up to the powerup's duration
     coin_value |-> 0, doublegold_clock |-> -1,
     \* the effects of the powerups collected during the last frame
     powerup_effects |-> <<>>,
     speed |-> START_SPEED * 1000, base_speed |-> START_SPEED * 1000,
     difficulty |-> 0, camera_x |-> 0,
     dino |-> NewDino,
     manager |-> [obstacles |-> <<>>, last_obstacle_x |-> 0,
                  \* the obs_x computed during the last frame, and the
                  \* obstacles removed since the last clear()
                  generated |-> {}, removals |-> 0],
     frame_ms |-> ms,
     \* running ticks and milliseconds played since the game was reset, and
     \* the games played
     ticks |-> 0, clock |-> 0, games |-> 1,
     \* the score at the start of the last frame's running tick, -1 when
     \* that frame ran none
     tick_score |-> -1]

\* Mutant of new_game: the coin multiplier is left as the last game had it.
new_game_keep_multiplier(g, td) ==
    [g EXCEPT !.score = 0, !.token_score = 0,
              !.game_running = FALSE, !.difficulty = 0,
              !.active_powerups = [n \in {} |-> 0],
              !.tokens = token_manager_clear(@, td.clear_spawn_time,
                                             td.clear_powerup_time),
              !.coin_value = 0, !.doublegold_clock = -1,
              !.powerup_effects = <<>>,
              !.speed = START_SPEED * 1000, !.base_speed = START_SPEED * 1000,
              !.camera_x = 0,
              !.dino = [@ EXCEPT !.x = DINO_START_X,
                                 !.y = (W_GROUND_Y + GROUND_OFFSET
                                        - DINO_HEIGHT \div 2) * 10000,
                                 !.vy = 0, !.state = "idle"],
              !.manager = obstacle_manager_clear(@),
              !.game_over_visible = FALSE,
              !.ticks = 0, !.clock = 0, !.games = @ + 1]

\* new_game(); td holds the random draws of token_manager.clear().
new_game(g, td) ==
    [g EXCEPT !.score = 0, !.token_score = 0,
              !.game_running = FALSE, !.difficulty = 0,
              !.active_powerups = [n \in {} |-> 0], !.coin_multiplier = 1,
              !.tokens = token_manager_clear(@, td.clear_spawn_time,
                                             td.clear_powerup_time),
              !.coin_value = 0, !.doublegold_clock = -1,
              !.powerup_effects = <<>>,
              !.speed = START_SPEED * 1000, !.base_speed = START_SPEED * 1000,
              !.camera_x = 0,
              !.dino = [@ EXCEPT !.x = DINO_START_X,
                                 !.y = (W_GROUND_Y + GROUND_OFFSET
                                        - DINO_HEIGHT \div 2) * 10000,
                                 !.vy = 0, !.state = "idle"],
              !.manager = obstacle_manager_clear(@),
              !.game_over_visible = FALSE,
              !.ticks = 0, !.clock = 0, !.games = @ + 1]

\* Mutant of handle_events: the start key starts the game whenever it is
\* not running, the game-over screen included.
handle_events_start_anywhere(g, key, td) ==
    CASE key = "escape" -> [g EXCEPT !.running = FALSE]
      [] key = "space" ->
           IF ~g.game_running
           THEN [g EXCEPT !.game_running = TRUE]
           ELSE g
      [] OTHER -> g

\* handle_events() with at most one key pressed during the frame.
handle_events(g, key, td) ==
    CASE key = "escape" -> [g EXCEPT !.running = FALSE]
      [] key = "space" ->
           IF ~g.game_running /\ ~g.game_over_visible
           THEN [g EXCEPT !.game_running = TRUE]
           ELSE IF g.game_over_visible THEN new_game(g, td) ELSE g
      [] OTHER -> g

\* check_high_score(), then game_over()
game_over(g) ==
    [g EXCEPT !.high_score = IF g.score > g.high_score * 1000
                             THEN g.score \div 1000 ELSE @,
              !.game_running = FALSE,
              !.game_over_visible = TRUE]

\* The end of a running tick of MainGame.update: the tokens the dino
\* touches, the coins at the current multiplier, the powerups activated,
\* then the obstacles.
collect_and_collide(g) ==
    LET c  == token_check_collision(g.tokens, g.dino)
        g1 == [g EXCEPT !.tokens = c.tm,
                        !.coin_value = c.coin_value,
                        !.powerup_effects = c.powerup_effects,
                        !.token_score = @ + c.coin_value * g.coin_multiplier]
        g2 == ActivateAll(g1, c.powerup_effects)
    IN  IF manager_check_collision(g2.manager, g2.dino) THEN game_over(g2) ELSE g2

\* The history kept across a running tick.
tick_history(g, ms) ==
    [g EXCEPT !.tick_score = g.score,
              !.ticks = @ + 1, !.clock = @ + ms,
              !.doublegold_clock =
                  IF @ >= 0 THEN Min(POWERUP_DURATION, @ + ms) ELSE @]

\* Mutant of MainGame.update: the difficulty is taken from the score after
\* the tick's accrual.
main_game_update_late_difficulty(g, ms, key, spacing, kind, td) ==
    IF g.game_running
    THEN LET p == update_powerups(g, ms)
             base == Min(MAX_SPEED * 1000,
                         START_SPEED * 1000 + g.score \div SPEED_MODIFIER)
             speed == IF "halfspeed" \in DOMAIN p.active_powerups
                      THEN (base * 7) \div 10 ELSE base
             camera_x == g.dino.x - CAMERA_OFFSET
             score == g.score + (base * ms) \div 1000
             difficulty == Min(MAX_DIFFICULTY, score \div (SPEED_MODIFIER * 1000))
             dino == dino_update(g.dino, ms, TRUE, W_GROUND_Y + GROUND_OFFSET, key)
             manager == obstacle_manager_update(g.manager, ms, speed, score,
                                                camera_x, spacing, kind)
             tokens == token_manager_update(g.tokens, ms, speed, score, difficulty,
                                            camera_x, None, td)
         IN  collect_and_collide(
                [tick_history(p, ms)
                 EXCEPT !.base_speed = base, !.speed = speed,
                        !.difficulty = difficulty, !.camera_x = camera_x,
                        !.score = score, !.dino = dino, !.manager = manager,
                        !.tokens = tokens])
    ELSE [g EXCEPT !.dino = dino_update(g.dino, ms, FALSE,
                                        W_GROUND_Y + GROUND_OFFSET, key),
                   !.tick_score = -1, !.coin_value = 0,
                   !.powerup_effects = <<>>]

\* A tick whose score accrues at the movement speed.
main_game_update_scored_by_speed(g, ms, key, spacing, kind, td) ==
    IF g.game_running
    THEN LET p == update_powerups(g, ms)
             base == Min(MAX_SPEED * 1000,
                         START_SPEED * 1000 + g.score \div SPEED_MODIFIER)
             speed == IF "halfspeed" \in DOMAIN p.active_powerups
                      THEN (base * 7) \div 10 ELSE base
             difficulty == Min(MAX_DIFFICULTY, g.score \div (SPEED_MODIFIER * 1000))
             camera_x == g.dino.x - CAMERA_OFFSET
             score == g.score + (speed * ms) \div 1000
             dino == dino_update(g.dino, ms, TRUE, W_GROUND_Y + GROUND_OFFSET, key)
             manager == obstacle_manager_update(g.manager, ms, speed, score,
                                                camera_x, spacing, kind)
             tokens == token_manager_update(g.tokens, ms, speed, score, difficulty,
                                            camera_x, None, td)
         IN  collect_and_collide(
                [tick_history(p, ms)
                 EXCEPT !.base_speed = base, !.speed = speed,
                        !.difficulty = difficulty, !.camera_x = camera_x,
                        !.score = score, !.dino = dino, !.manager = manager,
                        !.tokens = tokens])
    ELSE [g EXCEPT !.dino = dino_update(g.dino, ms, FALSE,
                                        W_GROUND_Y + GROUND_OFFSET, key),
                   !.tick_score = -1, !.coin_value = 0,
                   !.powerup_effects = <<>>]

\* MainGame.update(delta_time): powerups, base speed and speed, difficulty,
\* camera, score, dino, obstacles, tokens, token collisions, collision.
main_game_update(g, ms, key, spacing, kind, td) ==
    IF g.game_running
    THEN LET p == update_powerups(g, ms)
             base == Min(MAX_SPEED * 1000,
                         START_SPEED * 1000 + g.score \div SPEED_MODIFIER)
             speed == IF "halfspeed" \in DOMAIN p.active_powerups
                      THEN (base * 7) \div 10 ELSE base
             difficulty == Min(MAX_DIFFICULTY, g.score \div (SPEED_MODIFIER * 1000))
             camera_x == g.dino.x - CAMERA_OFFSET
             score == g.score + (base * ms) \div 1000
             dino == dino_update(g.dino, ms, TRUE, W_GROUND_Y + GROUND_OFFSET, key)
             manager == obstacle_manager_update(g.manager, ms, speed, score,
                                                camera_x, spacing, kind)
             tokens == token_manager_update(g.tokens, ms, speed, score, difficulty,
                                            camera_x, None, td)
         IN  collect_and_collide(
                [tick_history(p, ms)
                 EXCEPT !.base_speed = base, !.speed = speed,
                        !.difficulty = difficulty, !.camera_x = camera_x,
                        !.score = score, !.dino = dino, !.manager = manager,
                        !.tokens = tokens])
    ELSE [g EXCEPT !.dino = dino_update(g.dino, ms, FALSE,
                                        W_GROUND_Y + GROUND_OFFSET, key),
                   !.tick_score = -1, !.coin_value = 0,
                   !.powerup_effects = <<>>]

---------------------------------------------------------------------------
(* The windowed game as a state machine: the iterations of MainGame.run()  *)

MaxTicks == 50      \* running ticks followed per game
MaxTime  == 5000    \* milliseconds followed per game
MaxGames == 2       \* games per run

\* What clock.tick(60) returns, the same every frame of a run: a machine
\* that keeps up with 60 frames a second, and one that stalls.
FrameTimes == {16, 250}

\* random.randint(175, 350): its ends.
Spacings == {MIN_SPACING, MAX_SPACING}

\* random.random() >= 0.5
Kinds == {"ground", "bird"}

WKeys == {"none", "space", "down", "escape"}

\* Ten draws of the same candidate.
SameDraws(c) == [k \in 1 .. MAX_ATTEMPTS |-> c]

\* The token manager's draws during a frame.
TokenDraw(coin, spawn_interval, powerup, powerup_interval, rolls, bob) ==
    [coin_draws |-> SameDraws(coin),
     coin_fallback |-> [dx |-> COIN_FALLBACK_MIN, y |-> coin.y],
     spawn_interval |-> spawn_interval,
     powerup_draws |-> SameDraws(powerup),
     powerup_fallback |-> [dx |-> POWERUP_FALLBACK_MIN, y |-> powerup.y],
     powerup_interval |-> powerup_interval,
     doublegold_roll |-> rolls[1], godmode_roll |-> rolls[2],
     powerup_pick |-> rolls[3],
     bob |-> bob,
     clear_spawn_time |-> spawn_interval,
     clear_powerup_time |-> powerup_interval]

\* The runs followed here end before the first token can be due: the draws
\* are the longest intervals.
WindowedTokenDraws ==
    {TokenDraw([dx |-> COIN_MIN_OFFSET, y |-> W_GROUND_Y - 50],
               MAX_SPAWN_INTERVAL_MS,
               [dx |-> POWERUP_MIN_OFFSET, y |-> W_GROUND_Y - 50],
               MAX_POWERUP_INTERVAL_MS, <<TRUE, TRUE, "first">>, 0)}

WindowedInit ==
    /\ game \in {NewGame(ms, h) : ms \in FrameTimes, h \in {0, MaxStored}}
    /\ op = "init" /\ ret = "None"
    /\ player = None /\ jump_updates = -1
    /\ objA = None /\ objB = None /\ resAB = "unset" /\ resBA = "unset"
    /\ engine = None /\ loop = "idle"
    /\ NoExtras

\* One iteration of run(): the clock, handle_events(), update(delta_time).
Frame ==
    /\ game # None /\ game.running
    /\ \E key \in WKeys, spacing \in Spacings, kind \in Kinds,
          td \in WindowedTokenDraws :
         LET g0 == [game EXCEPT !.manager.generated = {}]
             g1 == handle_events(g0, key, td)
         IN  /\ (key = "space" /\ game.game_over_visible) => game.games < MaxGames
             /\ g1.game_running =>
                    (g1.ticks < MaxTicks /\ g1.clock + game.frame_ms <= MaxTime)
             /\ game' = main_game_update(g1, game.frame_ms, key, spacing, kind, td)
    /\ op' = "frame" /\ ret' = "None"
    /\ UNCHANGED <<player, jump_updates, collVars, engineVars, extraVars>>

WindowedNext == Frame

SpecWindowed == WindowedInit /\ [][WindowedNext]_vars

\* Both editions: a run is a run of the console engine or of the windowed game.
GameInit == EngineInit \/ WindowedInit

GameNext == EngineNext \/ WindowedNext

SpecGame == GameInit /\ [][GameNext]_vars

---------------------------------------------------------------------------
(* Claims about the console Player and about check_collision               *)

\* C1: a jump() call made while the player is JUMPING or DUCKING, or RUNNING
\* above the ground, returns False (it does not raise) and leaves the whole
\* player (state, velocity_y, y, height) as it was; a call made RUNNING with
\* y >= ground_y returns True and sets state = JUMPING and
\* velocity_y = JUMP_VELOCITY.
C1_JumpContract ==
    [][op' = "jump" =>
         IF player.state = RUNNING /\ player.y >= player.ground_y
         THEN /\ ret' = "True"
              /\ player'.state = JUMPING
              /\ player'.velocity_y = JUMP_VELOCITY
         ELSE /\ ret' = "False"
              /\ player' = player]_vars

\* A jump() refused in mid-air.
C1_Witness ==
    /\ op = "jump" /\ ret = "False"
    /\ player.state = JUMPING /\ player.y < player.ground_y

\* C2: after an accepted jump() followed by update() calls only, the player
\* is JUMPING and above the ground after 1..10 updates, and after the 11th it
\* is back at y = ground_y with velocity_y = 0 and state RUNNING.
C2_JumpLands ==
    jump_updates >= 0 =>
        /\ jump_updates <= 11
        /\ jump_updates = 0 =>
              /\ player.state = JUMPING /\ player.y = player.ground_y
              /\ player.velocity_y = JUMP_VELOCITY
        /\ (jump_updates > 0 /\ jump_updates < 11) =>
              player.state = JUMPING /\ player.y < player.ground_y
        /\ jump_updates = 11 =>
              /\ player.state = RUNNING /\ player.y = player.ground_y
              /\ player.velocity_y = 0

\* The landing itself.
C2_Witness ==
    /\ jump_updates = 11 /\ op = "update"
    /\ player.state = RUNNING /\ player.y = player.ground_y

\* The half-open interval test of the claim, written on the objects' edges.
Overlap(a, b) ==
    /\ a.x < b.x + b.width  /\ a.x + a.width > b.x
    /\ a.y < b.y + b.height /\ a.y + a.height > b.y

\* Two boxes that share an edge line and no interior.
EdgeTouch(a, b) ==
    \/ a.x + a.width = b.x \/ b.x + b.width = a.x
    \/ a.y + a.height = b.y \/ b.y + b.height = a.y

\* C4: check_collision(a, b) is True exactly when both objects are active and
\* their boxes overlap on both axes; an inactive object never collides, and
\* boxes that only touch on an edge do not collide.
C4_CollisionIff ==
    resAB # "unset" =>
        /\ resAB = Bool(objA.active /\ objB.active /\ Overlap(objA, objB))
        /\ (~objA.active \/ ~objB.active) => resAB = "False"
        /\ EdgeTouch(objA, objB) => resAB = "False"

\* Active boxes that touch on an edge and are reported as not colliding.
C4_Witness ==
    /\ resAB = "False" /\ objA.active /\ objB.active
    /\ objA.x + objA.width = objB.x /\ objA.width > 0
    /\ objA.y = objB.y /\ objA.height > 0 /\ objB.height > 0

\* C5: A.check_collision(B) = B.check_collision(A).
C5_CollisionSymmetric ==
    resAB # "unset" => resAB = resBA

\* Both directions report a collision of two different boxes.
C5_Witness ==
    /\ resAB = "True" /\ resBA = "True"
    /\ objA.x # objB.x /\ objA.width # objB.width

---------------------------------------------------------------------------
(* Claims about the two games                                              *)

GroundSurface == (W_GROUND_Y + GROUND_OFFSET - DINO_HEIGHT \div 2) * 10000

\* C3: in both editions the player's y is never greater than the ground y at
\* the end of a completed player update step: after Player.update() in the
\* console edition, after a frame's Dino.update(), position integration
\* included, in the windowed one.
C3_NeverBelowGround ==
    /\ (player # None /\ op = "update") => player.y <= player.ground_y
    /\ (game # None /\ op = "frame") => game.dino.y <= GroundSurface

\* The obstacles the player overlaps.
Overlapping(e) ==
    {id \in Range(e.obstacles) :
        e.objs[id].active /\ check_collision(e.player, e.objs[id])}

\* C6: a tick of the console engine in which the player overlaps one or more
\* active obstacles enters game-over exactly once (one end_game() call,
\* hence one 'game_over' notification and one high-score update), however
\* many obstacles overlap; no tick calls end_game() twice, and none calls it
\* while the game is over.
C6_GameOverOnce ==
    [][(engine # None /\ op' \in {"update", "run_iteration"}) =>
          /\ engine'.end_game_calls <= 1
          /\ engine'.end_game_calls = 1 <=> (~engine.game_over /\ engine'.game_over)
          /\ engine.game_over => engine'.end_game_calls = 0
          /\ (/\ op' = "update" /\ engine'.updated
              /\ engine'.player # None /\ engine'.player.active
              /\ Overlapping(engine') # {})
             => (engine'.end_game_calls = 1 /\ engine'.game_over)]_vars

C6_Witness ==
    /\ engine # None /\ op = "update"
    /\ engine.player # None
    /\ Cardinality(Overlapping(engine)) >= 2
    /\ engine.end_game_calls = 1 /\ engine.game_over

\* C7: the score never decreases while the game runs, and it is not
\* modified from the moment the game is paused or game-over has been set
\* until restart(), initialize() or new_game() resets it: a step leaves the
\* score of a paused or finished game alone, and a tick that ends the game
\* leaves the score as it was when end_game() or game_over() was called.
C7_ScoreFrozen ==
    [][/\ (engine # None /\ op' \notin {"restart", "initialize"}) =>
            /\ engine'.score >= engine.score
            /\ (engine.paused \/ engine.game_over) => engine'.score = engine.score
            /\ engine'.end_game_calls > 0 => engine'.score = engine'.game_over_data
       /\ (game # None /\ game'.games = game.games) =>
            /\ game'.score >= game.score
            /\ game.game_over_visible => game'.score = game.score]_vars

AllActive(e) ==
    /\ \A id \in Range(e.game_objects) :
          IF id = PlayerId THEN e.player.active ELSE e.objs[id].active
    /\ \A id \in Range(e.obstacles) : e.objs[id].active

\* C8: when a tick of the console engine has run its update loop to the
\* end, no inactive object is left in _game_objects or _obstacles; an
\* obstacle that ends the game is active, and so is every obstacle drawn.
C8_NoInactiveObjects ==
    engine # None =>
        /\ engine.updated => AllActive(engine)
        /\ engine.hit # 0 => engine.objs[engine.hit].active
        /\ \A id \in engine.drawn : engine.objs[id].active

C8_Witness ==
    /\ engine # None /\ op = "update"
    /\ engine.updated /\ engine.removed > 0
    /\ engine.obstacles # <<>>

\* C9: every obstacle is created at or beyond the right edge of the
\* viewport: the console spawner creates it at x = screen_width, and the
\* obs_x computed by the windowed _generate_obstacles is at least
\* screen_width, also after clear() and after obstacles were removed.
C9_SpawnAtRightEdge ==
    /\ engine # None => \A x \in engine.spawned : x = SCREEN_WIDTH
    /\ game # None => \A x \in game.manager.generated : x >= SCREEN_W * 1000

C9_Witness ==
    /\ game # None /\ op = "frame"
    /\ game.games = 2
    /\ game.manager.removals > 0
    /\ game.manager.generated # {}

\* C10: after every running tick of the windowed game the difficulty is
\* min(MAX_DIFFICULTY, floor(score / SPEED_MODIFIER)) for the score at the
\* start of that tick; it never exceeds MAX_DIFFICULTY and does not decrease
\* until new_game() resets it.
C10_DifficultyFollowsScore ==
    /\ [](game.tick_score >= 0 =>
             game.difficulty =
                 Min(MAX_DIFFICULTY, game.tick_score \div (SPEED_MODIFIER * 1000)))
    /\ [](game.difficulty <= MAX_DIFFICULTY)
    /\ [][game'.games = game.games => game'.difficulty >= game.difficulty]_vars

C10_Witness ==
    /\ op = "frame"
    /\ game.tick_score >= (MAX_DIFFICULTY + 1) * SPEED_MODIFIER * 1000
    /\ game.difficulty = MAX_DIFFICULTY

---------------------------------------------------------------------------
(* The console engine's difficulty: a driver that initializes the engine,  *)
(* ticks it through update() as run_game_loop does (the frame counter is   *)
(* only advanced by run(), so every such tick adds a point and none        *)
(* spawns), and calls increase_difficulty() and set_difficulty().          *)

MaxDiffScore == 250   \* update() is called while the score is below this
MaxLevel     == 10    \* increase_difficulty() is called below this level
MaxInits     == 2     \* initialize() calls followed

NewLog == [inits |-> 0, tuned |-> FALSE, by_ticks |-> 0]

DifficultyInit ==
    /\ engine = NewEngine(0)
    /\ loop = "idle"
    /\ op = "init" /\ ret = "None"
    /\ difficulty_log = NewLog
    /\ player = None /\ jump_updates = -1
    /\ objA = None /\ objB = None /\ resAB = "unset" /\ resBA = "unset"
    /\ game = None
    /\ token_manager = None /\ meta = None /\ input_handler = None

diffFrame == <<loop, player, jump_updates, collVars, game, token_manager, meta,
               input_handler>>

DInitialize ==
    /\ difficulty_log # None /\ difficulty_log.inits < MaxInits
    /\ engine' = initialize(Begin(engine))
    /\ difficulty_log' = [difficulty_log EXCEPT !.inits = @ + 1, !.by_ticks = 0]
    /\ op' = "initialize" /\ ret' = "True"
    /\ UNCHANGED diffFrame

DUpdate ==
    /\ difficulty_log # None /\ difficulty_log.inits >= 1
    /\ engine.score < MaxDiffScore
    /\ \E t \in ObstacleTypes :
         \E fh \in FlightHeights(t, Tier(engine.difficulty_level)) :
           LET r == update(Begin(engine), t, fh)
           IN  /\ ~r.raised
               /\ engine' = Normalize(r.e)
               /\ difficulty_log' =
                    [difficulty_log EXCEPT !.by_ticks =
                        @ + r.e.difficulty_level - engine.difficulty_level]
    /\ op' = "update" /\ ret' = "None"
    /\ UNCHANGED diffFrame

DIncreaseDifficulty ==
    /\ difficulty_log # None
    /\ engine.difficulty_level < MaxLevel
    /\ engine' = increase_difficulty(Begin(engine))
    /\ difficulty_log' = [difficulty_log EXCEPT !.tuned = TRUE]
    /\ op' = "increase_difficulty" /\ ret' = "None"
    /\ UNCHANGED diffFrame

DSetDifficulty ==
    /\ difficulty_log # None
    /\ \E d \in DifficultyNames : engine' = set_difficulty(Begin(engine), d)
    /\ difficulty_log' = [difficulty_log EXCEPT !.tuned = TRUE]
    /\ op' = "set_difficulty" /\ ret' = "None"
    /\ UNCHANGED diffFrame

DifficultyNext ==
    \/ DInitialize \/ DUpdate \/ DIncreaseDifficulty \/ DSetDifficulty

SpecDifficulty == DifficultyInit /\ [][DifficultyNext]_vars

\* C11: in a fresh game driven by ticks alone (first initialize(), no public
\* difficulty call) the difficulty level is 1 and the spawn interval is its
\* base 60 below score 100; once the score has reached 100 the level has
\* been increased exactly once and the interval is strictly below 60.  Every
\* difficulty increase, by a tick or by increase_difficulty(), lowers the
\* interval by 5 down to the floor, and no sequence of ticks,
\* increase_difficulty() and set_difficulty() calls takes it below 30.
C11_DifficultyThreshold ==
    /\ [](/\ difficulty_log.inits = 1 /\ ~difficulty_log.tuned
          /\ engine.score < DIFFICULTY_STEP
          => /\ engine.difficulty_level = 1
             /\ difficulty_log.by_ticks = 0
             /\ engine.obstacle_spawn_interval = SPAWN_INTERVAL)
    /\ [](/\ difficulty_log.inits = 1 /\ ~difficulty_log.tuned
          /\ engine.score >= DIFFICULTY_STEP /\ engine.score < 2 * DIFFICULTY_STEP
          => /\ engine.difficulty_level = 2
             /\ difficulty_log.by_ticks = 1
             /\ engine.obstacle_spawn_interval < SPAWN_INTERVAL)
    /\ [](engine.obstacle_spawn_interval >= MIN_SPAWN_INTERVAL)
    /\ [][engine'.difficulty_level = engine.difficulty_level + 1 =>
            /\ engine'.obstacle_spawn_interval =
                 Max(MIN_SPAWN_INTERVAL,
                     engine.obstacle_spawn_interval - SPAWN_INTERVAL_STEP)
            /\ engine.obstacle_spawn_interval >=
                 MIN_SPAWN_INTERVAL + SPAWN_INTERVAL_STEP =>
                   engine'.obstacle_spawn_interval =
                     engine.obstacle_spawn_interval - SPAWN_INTERVAL_STEP]_vars

C11_Witness ==
    /\ op = "update"
    /\ difficulty_log.inits = 1 /\ ~difficulty_log.tuned
    /\ engine.score = DIFFICULTY_STEP
    /\ engine.difficulty_level = 2
    /\ engine.obstacle_spawn_interval = SPAWN_INTERVAL - SPAWN_INTERVAL_STEP

---------------------------------------------------------------------------
(* TokenManager.spawn_coin and spawn_powerup called with an obstacle       *)
(* manager: a token manager, the camera where MainGame.update puts it      *)
(* (dino x - 200), and obstacles standing where tokens are spawned.        *)

MaxTokens == 1     \* tokens in the list when a spawn is called

TokenCameraX == DINO_START_X - CAMERA_OFFSET
TokenBase    == TokenCameraX + SCREEN_W

\* Obstacles in the spawn area: each kind at two places.
TokenObstacles ==
    {create_windowed_obstacle(kind, (TokenBase + dx) * 1000) :
        kind \in Kinds, dx \in {200, 350}}

ObstacleManagers ==
    {None} \cup
    {[obstacles |-> obs, last_obstacle_x |-> 0, generated |-> {}, removals |-> 0] :
        obs \in {<<>>} \cup {<<a>> : a \in TokenObstacles}
                \cup {<<a, b>> : a \in TokenObstacles, b \in TokenObstacles}}

\* The candidates a spawn loop draws: randint's ends and a token height.
Candidates(lo, hi) == {[dx |-> dx, y |-> y] : dx \in {lo, hi}, y \in token_heights}

\* Ten draws: n times the candidate u, then the candidate c.
DrawSeqs(lo, hi) ==
    {[k \in 1 .. MAX_ATTEMPTS |-> IF k <= n THEN u ELSE c] :
        n \in {0, 2, MAX_ATTEMPTS}, u \in Candidates(lo, hi), c \in Candidates(lo, hi)}

TokensInit ==
    /\ token_manager \in
         {[tm |-> NewTokenManager(MIN_SPAWN_INTERVAL_MS, MIN_POWERUP_INTERVAL_MS),
           camera_x |-> TokenCameraX,
           obstacle_manager |-> om] : om \in ObstacleManagers}
    /\ op = "init" /\ ret = "None"
    /\ player = None /\ jump_updates = -1
    /\ objA = None /\ objB = None /\ resAB = "unset" /\ resBA = "unset"
    /\ engine = None /\ loop = "idle" /\ game = None
    /\ difficulty_log = None /\ meta = None /\ input_handler = None

tokenFrame == <<ret, player, jump_updates, collVars, engineVars, game,
                difficulty_log, meta, input_handler>>

TSpawnCoin ==
    /\ token_manager # None
    /\ Len(token_manager.tm.tokens) < MaxTokens
    /\ \E draws \in DrawSeqs(COIN_MIN_OFFSET, COIN_MAX_OFFSET),
          fb \in Candidates(COIN_FALLBACK_MIN, COIN_FALLBACK_MAX) :
         token_manager' =
            [token_manager EXCEPT !.tm =
                spawn_coin(@, token_manager.camera_x,
                           token_manager.obstacle_manager, draws, fb)]
    /\ op' = "spawn_coin"
    /\ UNCHANGED tokenFrame

TSpawnPowerup ==
    /\ token_manager # None
    /\ Len(token_manager.tm.tokens) < MaxTokens
    /\ \E score \in {0, HALFSPEED_MIN_SCORE * 1000, GODMODE_MIN_SCORE * 1000},
          doublegold_roll \in BOOLEAN, godmode_roll \in BOOLEAN :
         LET available == available_powerups(score, doublegold_roll, godmode_roll)
         IN  \E powerup_type \in IF available = {} THEN {"none"} ELSE available,
                draws \in DrawSeqs(POWERUP_MIN_OFFSET, POWERUP_MAX_OFFSET),
                fb \in Candidates(POWERUP_FALLBACK_MIN, POWERUP_FALLBACK_MAX) :
               token_manager' =
                  [token_manager EXCEPT !.tm =
                      spawn_powerup(@, token_manager.camera_x, available,
                                    powerup_type,
                                    token_manager.obstacle_manager, draws, fb)]
    /\ op' = "spawn_powerup"
    /\ UNCHANGED tokenFrame

TClear ==
    /\ token_manager # None
    /\ token_manager' =
          [token_manager EXCEPT !.tm =
              token_manager_clear(@, MIN_SPAWN_INTERVAL_MS, MIN_POWERUP_INTERVAL_MS)]
    /\ op' = "clear"
    /\ UNCHANGED tokenFrame

TokensNext == TSpawnCoin \/ TSpawnPowerup \/ TClear

SpecTokens == TokensInit /\ [][TokensNext]_vars

\* The obstacle rects, inflated by the safety margins, that the 40x40 box
\* centred on (x, y) intersects.
Blocking(x, y, om) ==
    {i \in 1 .. Len(om.obstacles) :
        LET o == om.obstacles[i]
            left   == Floor(o.x, 1000) - o.size \div 2 - MIN_DISTANCE_FROM_OBSTACLES
            right  == Floor(o.x, 1000) - o.size \div 2 + o.size + MIN_DISTANCE_FROM_OBSTACLES
            top    == o.y - o.size \div 2 - VERTICAL_SAFE_ZONE
            bottom == o.y - o.size \div 2 + o.size + VERTICAL_SAFE_ZONE
        IN  /\ x + TOKEN_BOX_HALF > left /\ x - TOKEN_BOX_HALF < right
            /\ y + TOKEN_BOX_HALF > top /\ y - TOKEN_BOX_HALF < bottom}

\* C12: spawn_coin / spawn_powerup called with an obstacle manager place
\* every token either at a candidate whose 40x40 box intersects no inflated
\* obstacle rect, or, after 10 rejected candidates, at a fallback x beyond
\* every candidate x (coin: candidates <= base + 300, fallback >= base +
\* 400; powerup: candidates <= base + 500, fallback >= base + 600);
\* spawn_coin appends exactly one token.
C12_SafeTokenPlacement ==
    (token_manager # None /\ token_manager.obstacle_manager # None
     /\ op \in {"spawn_coin", "spawn_powerup"}) =>
        LET tm == token_manager.tm
            om == token_manager.obstacle_manager
            base == token_manager.camera_x + SCREEN_W
            hi == IF op = "spawn_coin" THEN COIN_MAX_OFFSET ELSE POWERUP_MAX_OFFSET
            far == IF op = "spawn_coin" THEN COIN_FALLBACK_MIN ELSE POWERUP_FALLBACK_MIN
        IN  /\ op = "spawn_coin" => (tm.last.appended = 1 /\ Len(tm.tokens) >= 1)
            /\ tm.last.appended <= 1
            /\ tm.last.appended = 1 =>
                 LET token == tm.tokens[Len(tm.tokens)]
                     x == token.x \div 1000
                 IN  /\ token.y \in token_heights
                     /\ \/ /\ ~tm.last.fallback
                           /\ x <= base + hi
                           /\ Blocking(x, token.y, om) = {}
                        \/ /\ tm.last.fallback
                           /\ tm.last.tried # {}
                           /\ \A c \in tm.last.tried :
                                 /\ c <= base + hi /\ c < x
                                 /\ \E y \in token_heights : Blocking(c, y, om) # {}
                           /\ x >= base + far

C12_Witness ==
    /\ token_manager # None /\ token_manager.obstacle_manager # None
    /\ op = "spawn_coin"
    /\ token_manager.tm.last.fallback
    /\ Cardinality(token_manager.tm.last.tried) = 2
    /\ Len(token_manager.tm.tokens) = 1

---------------------------------------------------------------------------
(* The windowed game followed long enough for powerups: a machine whose    *)
(* frames take 250 ms, obstacles at the widest spacing, the first powerup  *)
(* due after the shortest interval.                                        *)

MaxPowerupTime == 29000    \* milliseconds of play followed

PowerupFrameTimes == {250}

PowerupKeys == {"none", "space"}

PowerupTokenDraws ==
    {TokenDraw([dx |-> dx, y |-> y], MAX_SPAWN_INTERVAL_MS,
               [dx |-> POWERUP_MIN_OFFSET, y |-> y], MIN_POWERUP_INTERVAL_MS,
               rolls, bob) :
        dx \in {COIN_MIN_OFFSET, COIN_MAX_OFFSET},
        y \in {W_GROUND_Y - 50, W_GROUND_Y - 250},
        rolls \in {<<TRUE, FALSE, "first">>, <<TRUE, FALSE, "last">>,
                   <<FALSE, TRUE, "last">>},
        bob \in {-BOB_AMPLITUDE, BOB_AMPLITUDE}}

PowerupInit ==
    /\ game \in {[NewGame(ms, 0) EXCEPT !.tokens =
                     NewTokenManager(MIN_SPAWN_INTERVAL_MS, MIN_POWERUP_INTERVAL_MS)] :
                 ms \in PowerupFrameTimes}
    /\ op = "init" /\ ret = "None"
    /\ player = None /\ jump_updates = -1
    /\ objA = None /\ objB = None /\ resAB = "unset" /\ resBA = "unset"
    /\ engine = None /\ loop = "idle"
    /\ NoExtras

\* One iteration of run(), as Frame.
PowerupFrame ==
    /\ game # None /\ game.running
    /\ \E key \in PowerupKeys, td \in PowerupTokenDraws :
         LET g0 == [game EXCEPT !.manager.generated = {}]
             g1 == handle_events(g0, key, td)
         IN  /\ ~(key = "space" /\ game.game_over_visible)
             /\ g1.game_running => g1.clock + game.frame_ms <= MaxPowerupTime
             /\ game' = main_game_update(g1, game.frame_ms, key, MAX_SPACING,
                                         "ground", td)
    /\ op' = "frame" /\ ret' = "None"
    /\ UNCHANGED <<player, jump_updates, collVars, engineVars, extraVars>>

PowerupNext == PowerupFrame

SpecPowerups == PowerupInit /\ [][PowerupNext]_vars

\* C13: from the tick that collects a doublegold token the coin multiplier
\* is 2 and the effect is listed, as long as the delta_time of the running
\* ticks since then stays below the token's duration (10 s); at the tick
\* where it reaches the duration the entry is gone and the multiplier is 1;
\* without the effect the multiplier is 1.  The coins a tick collects are
\* added to token_score twice while the effect lasts and once otherwise,
\* in particular after it has expired.
C13_DoubleGoldDuration ==
    /\ [](/\ game.doublegold_clock >= 0
          /\ game.doublegold_clock < POWERUP_DURATION
          => /\ game.coin_multiplier = 2
             /\ "doublegold" \in DOMAIN game.active_powerups
             /\ game.active_powerups["doublegold"]
                  = POWERUP_DURATION - game.doublegold_clock)
    /\ [](game.doublegold_clock >= POWERUP_DURATION
          => /\ game.coin_multiplier = 1
             /\ "doublegold" \notin DOMAIN game.active_powerups)
    /\ [](game.doublegold_clock < 0
          => /\ game.coin_multiplier = 1
             /\ "doublegold" \notin DOMAIN game.active_powerups)
    /\ [][game'.games = game.games =>
            game'.token_score = game.token_score + game'.coin_value *
               (IF /\ game.doublegold_clock >= 0
                   /\ game.doublegold_clock + game.frame_ms < POWERUP_DURATION
                THEN 2 ELSE 1)]_vars

C13_Witness ==
    /\ op = "frame"
    /\ game.doublegold_clock >= POWERUP_DURATION
    /\ game.coin_multiplier = 1
    /\ game.coin_value > 0
    /\ game.token_score >= 3


----------------------------------------------------------------------------
(* SingletonMeta and GameEngine.get_instance / destroy_instance, called by  *)
(* several threads. Every bytecode-level access of the shared dictionary    *)
(* and of the lock is one step. An instance is its construction number; 0   *)
(* in a completed call stands for KeyError.                                 *)

MaxThreads  == 2
MaxCallsPerThread == 3
MaxDestroys == 2

Threads == 1..MaxThreads

NewMeta ==
    [instances |-> 0,            \* _instances.get(GameEngine), 0 when absent
     lock      |-> 0,            \* holder of _lock, 0 when free
     ctor_runs |-> 0,            \* runs of GameEngine.__init__
     epoch_ctor_runs |-> 0,      \* runs since the last del
     dels      |-> 0,            \* completed `del cls._instances[cls]`
     cleanups  |-> 0,
     pc        |-> [t \in Threads |-> "idle"],
     built     |-> [t \in Threads |-> 0],     \* local `instance`
     begun     |-> [t \in Threads |-> 0],     \* dels when the call began
     locked    |-> [t \in Threads |-> FALSE], \* the call took the lock
     started   |-> [t \in Threads |-> 0],     \* calls begun by the thread
     calls     |-> {}]           \* completed get_instance() calls

\* `cls not in cls._instances` of the second check, under the lock.
second_check_skipped(m) == TRUE

second_check(m) == m.instances = 0

SingletonInit ==
    /\ meta = NewMeta
    /\ op = "init" /\ ret = "None"
    /\ player = None /\ jump_updates = -1
    /\ objA = None /\ objB = None /\ resAB = "unset" /\ resBA = "unset"
    /\ engine = None /\ loop = "idle" /\ game = None
    /\ difficulty_log = None /\ token_manager = None /\ input_handler = None

metaFrame == <<ret, player, jump_updates, collVars, engineVars, game,
               difficulty_log, token_manager, input_handler>>

Completed(m, t, inst) ==
    [thread |-> t, inst |-> inst, begun |-> m.begun[t], ended |-> m.dels,
     locked |-> m.locked[t]]

\* get_instance() -> cls() -> first `if cls not in cls._instances`.
GFirstCheck(t) ==
    /\ meta.pc[t] = "idle"
    /\ meta.started[t] < MaxCallsPerThread
    /\ meta' = [meta EXCEPT !.pc[t] = IF meta.instances = 0 THEN "acquire"
                                                           ELSE "return",
                            !.begun[t] = meta.dels,
                            !.locked[t] = FALSE,
                            !.started[t] = @ + 1]
    /\ op' = "first_check"

\* `with cls._lock:` entry.
GAcquire(t) ==
    /\ meta.pc[t] = "acquire"
    /\ meta.lock = 0
    /\ meta' = [meta EXCEPT !.lock = t, !.pc[t] = "second_check",
                            !.locked[t] = TRUE]
    /\ op' = "acquire"

GSecondCheck(t) ==
    /\ meta.pc[t] = "second_check"
    /\ meta' = [meta EXCEPT !.pc[t] = IF second_check(meta) THEN "construct"
                                                            ELSE "release"]
    /\ op' = "second_check"

\* instance = super().__call__(): GameEngine.__init__ runs.
GConstruct(t) ==
    /\ meta.pc[t] = "construct"
    /\ meta' = [meta EXCEPT !.ctor_runs = @ + 1,
                            !.epoch_ctor_runs = @ + 1,
                            !.built[t] = meta.ctor_runs + 1,
                            !.pc[t] = "store"]
    /\ op' = "construct"

\* cls._instances[cls] = instance
GStore(t) ==
    /\ meta.pc[t] = "store"
    /\ meta' = [meta EXCEPT !.instances = meta.built[t], !.pc[t] = "release"]
    /\ op' = "store"

GRelease(t) ==
    /\ meta.pc[t] = "release"
    /\ meta' = [meta EXCEPT !.lock = 0, !.pc[t] = "return"]
    /\ op' = "release"

\* return cls._instances[cls]; KeyError when the entry is gone.
GReturn(t) ==
    /\ meta.pc[t] = "return"
    /\ meta' = [meta EXCEPT !.pc[t] = "idle",
                            !.calls = @ \cup {Completed(meta, t, meta.instances)}]
    /\ op' = "get_instance"

\* destroy_instance(): `if cls in cls._instances`.
DCheck(t) ==
    /\ meta.pc[t] = "idle"
    /\ meta.dels + Cardinality({u \in Threads :
                        meta.pc[u] \in {"d_read", "d_del"}}) < MaxDestroys
    /\ meta' = [meta EXCEPT !.pc[t] = IF meta.instances # 0 THEN "d_read"
                                                           ELSE "idle"]
    /\ op' = "destroy_check"

\* instance = cls._instances[cls]; instance._cleanup()
DRead(t) ==
    /\ meta.pc[t] = "d_read"
    /\ meta' = IF meta.instances = 0
               THEN [meta EXCEPT !.pc[t] = "idle"]         \* KeyError
               ELSE [meta EXCEPT !.pc[t] = "d_del", !.cleanups = @ + 1]
    /\ op' = "destroy_read"

\* del cls._instances[cls]
DDel(t) ==
    /\ meta.pc[t] = "d_del"
    /\ meta' = IF meta.instances = 0
               THEN [meta EXCEPT !.pc[t] = "idle"]         \* KeyError
               ELSE [meta EXCEPT !.pc[t] = "idle", !.instances = 0,
                                 !.dels = @ + 1, !.epoch_ctor_runs = 0]
    /\ op' = "destroy_instance"

SingletonNext ==
    /\ meta # None
    /\ \E t \in Threads :
         \/ GFirstCheck(t) \/ GAcquire(t) \/ GSecondCheck(t)
         \/ GConstruct(t) \/ GStore(t) \/ GRelease(t) \/ GReturn(t)
         \/ DCheck(t) \/ DRead(t) \/ DDel(t)
    /\ UNCHANGED metaFrame

SpecSingleton == SingletonInit /\ [][SingletonNext]_vars

\* C14: two get_instance() calls with no destroy_instance() deleting the
\* entry from the start of the earlier to the end of the later return the
\* same engine, also when both raced through the lock; the constructor runs
\* at most once between two deletions and exactly once for a stored
\* instance; a call begun after a deletion returns an instance constructed
\* after that deletion.
C14_SingleInstance ==
    meta # None =>
      /\ \A a, b \in meta.calls :
            (a.begun = a.ended /\ b.begun = b.ended /\ a.begun = b.begun)
               => a.inst = b.inst /\ a.inst # 0
      /\ meta.epoch_ctor_runs <= 1
      /\ meta.instances # 0 => meta.epoch_ctor_runs = 1
                                /\ meta.instances = meta.ctor_runs
      /\ meta.ctor_runs <= meta.dels + 1
      /\ \A c \in meta.calls : c.inst # 0 => c.inst > c.begun

C14_Witness ==
    /\ meta # None
    /\ \E a, b, c \in meta.calls :
         /\ a.thread # b.thread /\ a.locked /\ b.locked
         /\ a.begun = 0 /\ a.ended = 0 /\ b.begun = 0 /\ b.ended = 0
         /\ a.inst = 1 /\ b.inst = 1
         /\ c.begun = 1 /\ c.ended = 1 /\ c.inst = 2


----------------------------------------------------------------------------
(* ObstacleFactory called directly                                         *)

MaxFactoryX == 3

DifficultyLevels == 1..MAX_TIER

\* ObstacleFactory._DIFFICULTY_PROBABILITIES, in tenths, in dictionary order.
DIFFICULTY_PROBABILITIES(d) ==
    CASE d = 1 -> <<7, 2, 1>>
      [] d = 2 -> <<5, 3, 2>>
      [] d = 3 -> <<4, 4, 2>>
      [] OTHER -> <<3, 5, 2>>

ProbabilityKeys == <<CACTUS, BIRD, ROCK>>

\* random.choices(choices, weights)[0]: the first key whose cumulative weight
\* exceeds the roll; roll is random() in tenths.
weighted_random_choice(probabilities, roll) ==
    IF roll < probabilities[1] THEN ProbabilityKeys[1]
    ELSE IF roll < probabilities[1] + probabilities[2] THEN ProbabilityKeys[2]
    ELSE ProbabilityKeys[3]

\* Obstacle.get_obstacle_type() of Cactus, Bird and Rock.
get_obstacle_type(o) ==
    CASE o.kind = CACTUS -> CACTUS
      [] o.kind = BIRD   -> BIRD
      [] o.kind = ROCK   -> ROCK

create_random_obstacle(x, ground_y, d, roll, fh) ==
    create_obstacle(weighted_random_choice(DIFFICULTY_PROBABILITIES(d), roll),
                    x, ground_y, d, fh)

FactoryXs == {-MaxFactoryX, 0, MaxFactoryX, SCREEN_WIDTH}
FactoryGrounds == {GROUND_Y, GROUND_Y + 1}

FactoryInit ==
    /\ objA = None /\ objB = None
    /\ op = "init" /\ ret = "None"
    /\ player = None /\ jump_updates = -1
    /\ resAB = "unset" /\ resBA = "unset"
    /\ engine = None /\ loop = "factory" /\ game = None
    /\ NoExtras

factoryFrame == <<player, jump_updates, resAB, resBA, engineVars, game, extraVars>>

\* objB is the request, objA the obstacle returned.
FCreateObstacle ==
    \E t \in ObstacleTypes \cup {"other"}, x \in FactoryXs,
       ground_y \in FactoryGrounds, d \in DifficultyLevels :
       \E fh \in BIRD_HEIGHTS(d) :
          /\ objB' = [kind |-> "request", t |-> t, x |-> x,
                      ground_y |-> ground_y, difficulty |-> d]
          /\ IF t \in ObstacleTypes
             THEN objA' = create_obstacle(t, x, ground_y, d, fh) /\ ret' = "obstacle"
             ELSE objA' = None /\ ret' = "ValueError"
          /\ op' = "create_obstacle"

FCreateRandomObstacle ==
    \E x \in FactoryXs, ground_y \in FactoryGrounds, d \in DifficultyLevels,
       roll \in 0..9 :
       \E fh \in BIRD_HEIGHTS(d) :
          /\ objB' = [kind |-> "request", t |-> "random", x |-> x,
                      ground_y |-> ground_y, difficulty |-> d]
          /\ objA' = create_random_obstacle(x, ground_y, d, roll, fh)
          /\ ret' = "obstacle"
          /\ op' = "create_random_obstacle"

FactoryNext ==
    /\ loop = "factory"
    /\ (FCreateObstacle \/ FCreateRandomObstacle)
    /\ UNCHANGED factoryFrame

SpecFactory == FactoryInit /\ [][FactoryNext]_vars

\* C15: create_obstacle(t, x, ground_y, difficulty) with a supported type
\* returns an active obstacle of type t at the requested x with an integer
\* speed of at least 1, at every difficulty level; create_random_obstacle
\* returns an active obstacle of one of the three supported types.
C15_FactoryContract ==
    /\ (op = "create_obstacle" /\ objB.t \in ObstacleTypes) =>
          /\ ret = "obstacle"
          /\ objA.active
          /\ get_obstacle_type(objA) = objB.t
          /\ objA.x = objB.x
          /\ objA.speed \in Int /\ objA.speed >= 1
          /\ objA.speed = FactorySpeed(objB.t, objB.difficulty)
    /\ op = "create_random_obstacle" =>
          /\ ret = "obstacle"
          /\ objA.active
          /\ get_obstacle_type(objA) \in ObstacleTypes
          /\ objA.x = objB.x /\ objA.speed >= 1

C15_Witness ==
    /\ op = "create_obstacle" /\ objB.t = BIRD /\ objB.difficulty = MAX_TIER
    /\ objB.x = SCREEN_WIDTH
    /\ objA.active /\ get_obstacle_type(objA) = BIRD /\ objA.speed = 1
    /\ objA.x = SCREEN_WIDTH


\* C16: restart() called on a console engine in the game-over state returns
\* normally and leaves the engine running, not paused, not game-over, with
\* score 0, no obstacles, and its player RUNNING on the ground and listed in
\* _game_objects.
C16_RestartRecovers ==
    [][(op' = "restart" /\ engine.game_over /\ engine.player # None) =>
          /\ ret' = "None"
          /\ engine'.running /\ ~engine'.paused /\ ~engine'.game_over
          /\ engine'.score = 0 /\ engine'.obstacles = <<>>
          /\ engine'.player.state = RUNNING
          /\ is_on_ground(engine'.player)
          /\ InSeq(engine'.game_objects, PlayerId)]_vars


\* C17: while the console engine is paused and stays paused, a key or a tick
\* of the loop changes neither the player, nor the obstacles, nor the score,
\* nor the frame counter.
C17_PausedFrozen ==
    [][(/\ engine # None /\ engine.paused /\ engine'.paused
        /\ op' \in {"run_iteration", "update", "render",
                    "player.jump", "player.duck"}) =>
          /\ engine'.player = engine.player
          /\ engine'.objs = engine.objs
          /\ engine'.obstacles = engine.obstacles
          /\ engine'.game_objects = engine.game_objects
          /\ engine'.score = engine.score
          /\ engine'.frame_count = engine.frame_count]_vars


\* C18: once the tick in which the collision occurred has completed, the
\* high score is at least the integer final score, in the console engine
\* and in the windowed game; and the high score never decreases.
C18_HighScoreKept ==
    /\ []((/\ engine # None /\ op \in {"update", "run_iteration"}
           /\ ret = "None" /\ engine.end_game_calls > 0)
             => engine.high_score >= engine.score)
    /\ []((game # None /\ game.game_over_visible)
             => game.high_score >= game.score \div 1000)
    /\ [][/\ engine # None => engine'.high_score >= engine.high_score
          /\ game # None => game'.high_score >= game.high_score]_vars


----------------------------------------------------------------------------
(* InputHandler: the key buffer shared by the input worker thread and the   *)
(* game loop. A key is the number of its production (1, 2, ...); 0 stands   *)
(* for None. Taking the lock, each statement under it and leaving it are    *)
(* separate steps.                                                          *)

BUFFER_LIMIT == 10
MaxKeys      == 13

\* A trim that keeps the oldest keys.
trim_keep_oldest(buffer) ==
    IF Len(buffer) > BUFFER_LIMIT THEN SubSeq(buffer, 1, BUFFER_LIMIT) ELSE buffer

\* if len(self._key_buffer) > 10: self._key_buffer = self._key_buffer[-10:]
trim(buffer) ==
    IF Len(buffer) > BUFFER_LIMIT
    THEN SubSeq(buffer, Len(buffer) - BUFFER_LIMIT + 1, Len(buffer))
    ELSE buffer

NewInputHandler ==
    [key_buffer  |-> <<>>,
     buffer_lock |-> "free",       \* "free", "worker" or "main"
     wpc         |-> "idle",       \* position of _input_worker
     pending     |-> 0,            \* normalized_key of the worker
     produced    |-> 0,            \* keys read so far
     appended    |-> 0,            \* the last key appended
     cpc         |-> "idle",       \* position of the game loop's call
     cop         |-> "none",       \* "get_key" or "clear_buffer"
     got         |-> 0,            \* what the call will return
     last_key    |-> 0,            \* the last key get_key() returned
     returned    |-> 0,            \* keys returned so far
     trims       |-> 0]            \* appends that overflowed

InputInit ==
    /\ input_handler = NewInputHandler
    /\ op = "init" /\ ret = "None"
    /\ player = None /\ jump_updates = -1
    /\ objA = None /\ objB = None /\ resAB = "unset" /\ resBA = "unset"
    /\ engine = None /\ loop = "idle" /\ game = None
    /\ difficulty_log = None /\ token_manager = None /\ meta = None

inputFrame == <<ret, player, jump_updates, collVars, engineVars, game,
                difficulty_log, token_manager, meta>>

\* _input_worker: a key was read and normalized.
WRead ==
    /\ input_handler.wpc = "idle"
    /\ input_handler.produced < MaxKeys
    /\ input_handler' = [input_handler EXCEPT !.wpc = "acquire",
                                              !.produced = @ + 1,
                                              !.pending = input_handler.produced + 1]
    /\ op' = "read_key"

WAcquire ==
    /\ input_handler.wpc = "acquire"
    /\ input_handler.buffer_lock = "free"
    /\ input_handler' = [input_handler EXCEPT !.buffer_lock = "worker",
                                              !.wpc = "append"]
    /\ op' = "worker_acquire"

WAppend ==
    /\ input_handler.wpc = "append"
    /\ input_handler' = [input_handler EXCEPT
                            !.key_buffer = Append(@, input_handler.pending),
                            !.appended = input_handler.pending,
                            !.wpc = "trim"]
    /\ op' = "append"

WTrim ==
    /\ input_handler.wpc = "trim"
    /\ input_handler' = [input_handler EXCEPT
                            !.key_buffer = trim(@),
                            !.trims = IF Len(input_handler.key_buffer) > BUFFER_LIMIT
                                      THEN @ + 1 ELSE @,
                            !.wpc = "release"]
    /\ op' = "trim"

WRelease ==
    /\ input_handler.wpc = "release"
    /\ input_handler' = [input_handler EXCEPT !.buffer_lock = "free",
                                              !.wpc = "idle"]
    /\ op' = "worker_release"

\* The game loop calls get_key() or clear_buffer().
CCall ==
    /\ input_handler.cpc = "idle"
    /\ \E c \in {"get_key", "clear_buffer"} :
          input_handler' = [input_handler EXCEPT !.cpc = "acquire", !.cop = c,
                                                 !.got = 0]
    /\ op' = "call"

CAcquire ==
    /\ input_handler.cpc = "acquire"
    /\ input_handler.buffer_lock = "free"
    /\ input_handler' = [input_handler EXCEPT !.buffer_lock = "main",
                                              !.cpc = "body"]
    /\ op' = "main_acquire"

\* if self._key_buffer: return self._key_buffer.pop(0)
CPop ==
    /\ input_handler.cpc = "body" /\ input_handler.cop = "get_key"
    /\ input_handler' =
          IF input_handler.key_buffer # <<>>
          THEN [input_handler EXCEPT !.got = Head(input_handler.key_buffer),
                                     !.key_buffer = Tail(@),
                                     !.cpc = "release"]
          ELSE [input_handler EXCEPT !.got = 0, !.cpc = "release"]
    /\ op' = "pop"

\* self._key_buffer.clear()
CClear ==
    /\ input_handler.cpc = "body" /\ input_handler.cop = "clear_buffer"
    /\ input_handler' = [input_handler EXCEPT !.key_buffer = <<>>,
                                              !.cpc = "release"]
    /\ op' = "clear"

\* The lock is left and the call returns.
CReturn ==
    /\ input_handler.cpc = "release"
    /\ input_handler' =
          [input_handler EXCEPT
              !.buffer_lock = "free", !.cpc = "idle",
              !.last_key = IF input_handler.cop = "get_key" /\ input_handler.got # 0
                           THEN input_handler.got ELSE @,
              !.returned = IF input_handler.cop = "get_key" /\ input_handler.got # 0
                           THEN @ + 1 ELSE @]
    /\ op' = input_handler.cop

InputNext ==
    /\ input_handler # None
    /\ \/ WRead \/ WAcquire \/ WAppend \/ WTrim \/ WRelease
       \/ CCall \/ CAcquire \/ CPop \/ CClear \/ CReturn
    /\ UNCHANGED inputFrame

SpecInput == InputInit /\ [][InputNext]_vars

Consecutive(buffer) ==
    \A i \in 1 .. Len(buffer) - 1 : buffer[i + 1] = buffer[i] + 1

\* C19: under every interleaving of the input worker with get_key() and
\* clear_buffer(): whenever the lock is free the buffer holds at most 10
\* keys, and they are the most recently appended keys in the order of their
\* production; get_key() returns the oldest key of the buffer, so the keys
\* it returns are in production order and each is returned at most once;
\* it returns None exactly when it finds the buffer empty.
C19_KeyBuffer ==
    /\ []((input_handler # None /\ input_handler.buffer_lock = "free") =>
             /\ Len(input_handler.key_buffer) <= BUFFER_LIMIT
             /\ Consecutive(input_handler.key_buffer)
             /\ input_handler.key_buffer # <<>> =>
                   /\ input_handler.key_buffer[Len(input_handler.key_buffer)]
                         = input_handler.appended
                   /\ input_handler.key_buffer[1] > input_handler.last_key)
    /\ [][op' = "get_key" =>
             /\ input_handler.got # 0 =>
                   /\ input_handler.got > input_handler.last_key
                   /\ input_handler.got <= input_handler.appended
                   /\ input_handler'.last_key = input_handler.got
             /\ input_handler.got = 0 =>
                   input_handler'.last_key = input_handler.last_key]_vars
    /\ [][op' = "pop" =>
             /\ input_handler'.got = 0 <=> input_handler.key_buffer = <<>>
             /\ input_handler.key_buffer # <<>> =>
                   /\ input_handler'.got = Head(input_handler.key_buffer)
                   /\ input_handler'.key_buffer = Tail(input_handler.key_buffer)]_vars
    /\ [][op' = "trim" /\ Len(input_handler.key_buffer) > BUFFER_LIMIT =>
             /\ Len(input_handler'.key_buffer) = BUFFER_LIMIT
             /\ \A i \in 1 .. BUFFER_LIMIT :
                   input_handler'.key_buffer[i] =
                      input_handler.key_buffer[i + Len(input_handler.key_buffer)
                                                 - BUFFER_LIMIT]]_vars

C19_Witness ==
    /\ input_handler # None
    /\ op = "get_key"
    /\ input_handler.buffer_lock = "free"
    /\ input_handler.trims = 2
    /\ input_handler.got = 3 /\ input_handler.returned = 1
    /\ Len(input_handler.key_buffer) = BUFFER_LIMIT - 1


\* C20: a tick of the console engine returns normally: update() in any
\* reachable state, whatever factory-made obstacles are in play, raises
\* nothing and does not end the driver's loop.
C20_TickTotal ==
    (engine # None /\ op = "update") => (ret = "None" /\ loop # "crashed")


----------------------------------------------------------------------------
(* MainGame's powerup bookkeeping driven directly: activate_powerup with    *)
(* a token's effect and duration, and update_powerups with a frame time,   *)
(* in any order.                                                           *)

EffectFrameTimes == {250, 4000}

EffectsInit ==
    /\ game = [NewGame(250, 0) EXCEPT !.game_running = TRUE]
    /\ op = "init" /\ ret = "None"
    /\ player = None /\ jump_updates = -1
    /\ objA = None /\ objB = None /\ resAB = "unset" /\ resBA = "unset"
    /\ engine = None /\ loop = "effects"
    /\ NoExtras

EActivatePowerup ==
    /\ \E effect \in PowerupTypes :
          /\ game' = activate_powerup(game, effect, token_duration(effect))
          /\ ret' = effect
    /\ op' = "activate_powerup"

EUpdatePowerups ==
    /\ \E ms \in EffectFrameTimes : game' = update_powerups(game, ms)
    /\ op' = "update_powerups" /\ ret' = "None"

EffectsNext ==
    /\ game # None /\ loop = "effects"
    /\ (EActivatePowerup \/ EUpdatePowerups)
    /\ UNCHANGED <<player, jump_updates, collVars, engineVars, extraVars>>

SpecEffects == EffectsInit /\ [][EffectsNext]_vars

\* C21: active_powerups has one remaining time per effect name; an
\* activation sets the remaining time of halfspeed or doublegold to the
\* configured duration whatever time was left, so no remaining time exceeds
\* the configured duration (and every listed one is positive), and the coin
\* multiplier is 1 or 2, 2 exactly while doublegold is listed.
C21_PowerupsBounded ==
    /\ [](game # None =>
            /\ DOMAIN game.active_powerups \subseteq PowerupTypes
            /\ \A n \in DOMAIN game.active_powerups :
                  /\ game.active_powerups[n] > 0
                  /\ game.active_powerups[n] <= token_duration(n)
            /\ game.coin_multiplier \in {1, 2}
            /\ game.coin_multiplier = 2 <=> "doublegold" \in DOMAIN game.active_powerups)
    /\ [][(op' = "activate_powerup" /\ ret' \in {"halfspeed", "doublegold"}) =>
            /\ game'.active_powerups[ret'] = token_duration(ret')
            /\ \A n \in DOMAIN game.active_powerups \ {ret'} :
                  /\ n \in DOMAIN game'.active_powerups
                  /\ game'.active_powerups[n] = game.active_powerups[n]]_vars

\* doublegold is activated at its full duration while halfspeed has 250 ms left.
C21_Witness ==
    /\ game # None /\ op = "activate_powerup" /\ ret = "doublegold"
    /\ game.active_powerups["doublegold"] = POWERUP_DURATION
    /\ "halfspeed" \in DOMAIN game.active_powerups
    /\ game.active_powerups["halfspeed"] = 250
    /\ game.coin_multiplier = 2


\* The score (in thousandths) after n running ticks of ms milliseconds since
\* new_game(): base_speed = min(MAX_SPEED, START_SPEED + score / SPEED_MODIFIER),
\* score += base_speed * delta_time.
\* One running tick from score s.
ScoreStep(s, ms) ==
    s + (Min(MAX_SPEED * 1000, START_SPEED * 1000 + s \div SPEED_MODIFIER)
         * ms) \div 1000

\* n running ticks from score s, as two runs of half the length.
RECURSIVE ScoreRun(_, _, _)
ScoreRun(s, n, ms) ==
    IF s >= 0 /\ n = 0 THEN s
    ELSE IF n = 1 THEN ScoreStep(s, ms)
    ELSE ScoreRun(ScoreRun(s, n \div 2, ms), n - n \div 2, ms)

ScoreAfter(n, ms) == ScoreRun(0, n, ms)

\* C22: the score after every running tick is the one the delta_time values
\* of the ticks since new_game() determine, with or without halfspeed; the
\* base speed follows the score alone, and the movement speed is the base
\* speed, or 0.7 times it, the latter only with halfspeed listed.
C22_ScoreIgnoresHalfspeed ==
    game # None =>
      /\ game.score = ScoreAfter(game.ticks, game.frame_ms)
      /\ game.tick_score >= 0 =>
            /\ game.base_speed = Min(MAX_SPEED * 1000,
                                     START_SPEED * 1000
                                        + game.tick_score \div SPEED_MODIFIER)
            /\ game.speed \in {game.base_speed, (game.base_speed * 7) \div 10}
            /\ "halfspeed" \notin DOMAIN game.active_powerups
                  => game.speed = game.base_speed

C22_Witness ==
    /\ game # None /\ op = "frame" /\ game.game_running
    /\ "halfspeed" \in DOMAIN game.active_powerups
    /\ game.active_powerups["halfspeed"] < POWERUP_DURATION - 1000
    /\ game.speed = (game.base_speed * 7) \div 10
    /\ game.speed < game.base_speed
    /\ game.score = ScoreAfter(game.ticks, game.frame_ms)
    /\ game.ticks > 60


\* C23: duck() called on a RUNNING player on the ground returns True
\* without raising; the state becomes DUCKING and the height 1, while x, y,
\* width and velocity_y stay as they were.
C23_DuckFromRunning ==
    [][(/\ player # None /\ op' = "duck"
        /\ player.state = RUNNING /\ is_on_ground(player)) =>
          /\ ret' = "True"
          /\ player'.state = DUCKING
          /\ player'.height = 1
          /\ player'.x = player.x /\ player'.y = player.y
          /\ player'.width = player.width
          /\ player'.velocity_y = player.velocity_y]_vars

\* C24: a player that ducked while JUMPING keeps falling: an update() of a
\* DUCKING player above the ground moves it as _update_physics moves a
\* JUMPING one, so that it comes down to ground_y with velocity_y 0.
C24_DuckKeepsTrajectory ==
    [][(/\ player # None /\ op' = "update"
        /\ player.state = DUCKING /\ ~is_on_ground(player)) =>
          LET q == update_physics([player EXCEPT !.state = JUMPING])
          IN  /\ player'.y = q.y
              /\ player'.velocity_y = q.velocity_y]_vars

\* C25: stop_ducking() called on a DUCKING player on the ground returns
\* True and leaves it RUNNING with height 2 at y = ground_y, on the ground,
\* so that jump() is accepted next.
C25_StopDuckingGrounded ==
    [][(/\ player # None /\ op' = "stop_ducking"
        /\ player.state = DUCKING /\ is_on_ground(player)) =>
          /\ ret' = "True"
          /\ player'.state = RUNNING
          /\ player'.height = PLAYER_HEIGHT
          /\ player'.y = player'.ground_y
          /\ is_on_ground(player')
          /\ jump(player').ret = "True"]_vars


----------------------------------------------------------------------------
(* The console edition as main() runs it: initialize(), then run_game_loop: *)
(* start(), and while game.running one key, update() unless paused, and    *)
(* render(). What a call raises ends the loop: main() reports it and the   *)
(* program ends. The engine record carries two more history fields: the    *)
(* iterations whose update() ran _update since the last spawn, and the     *)
(* obstacles spawned so far.                                               *)

MaxLoopTicks == 70

LoopKeys == {"none", "space", "down", "p", "q"}

LoopHistory == [loop_ticks |-> 0, loop_spawns |-> 0]

ConsoleLoopInit ==
    /\ engine \in {start(initialize(NewEngine(h))) @@ LoopHistory : h \in {0, MaxStored}}
    /\ loop = "loop"
    /\ op = "start" /\ ret = "None"
    /\ player = None /\ jump_updates = -1
    /\ objA = None /\ objB = None /\ resAB = "unset" /\ resBA = "unset"
    /\ game = None
    /\ NoExtras

\* The key handling of one iteration; confirm is the answer to the quit
\* dialog.  broke: the loop was left by `break`.
loop_key(e, key, confirm) ==
    CASE key = "q" ->
           [e |-> IF confirm THEN [e EXCEPT !.running = FALSE] ELSE e,
            raised |-> FALSE, broke |-> confirm]
      [] key = "p" -> [e |-> toggle_pause(e), raised |-> FALSE, broke |-> FALSE]
      [] key = "space" ->
           IF e.game_over
           THEN [e |-> restart(e).e, raised |-> restart(e).ret = "AttributeError",
                 broke |-> FALSE]
           ELSE [e |-> [e EXCEPT !.player = jump(e.player).p],
                 raised |-> FALSE, broke |-> FALSE]
      [] key = "down" ->
           [e |-> [e EXCEPT !.player = duck(e.player).p],
            raised |-> duck(e.player).ret = "AttributeError", broke |-> FALSE]
      [] OTHER -> [e |-> e, raised |-> FALSE, broke |-> FALSE]

\* The body of the while loop.
loop_iteration(e, key, confirm, t, fh) ==
    LET k == loop_key(e, key, confirm)
    IN  IF k.raised \/ k.broke THEN k
        ELSE LET ran == ~k.e.paused /\ ~k.e.game_over
                 u == IF ~k.e.paused THEN update(k.e, t, fh)
                      ELSE [e |-> k.e, raised |-> FALSE]
                 n == Cardinality(u.e.spawned)
                 h == [u.e EXCEPT !.loop_spawns = @ + n,
                                  !.loop_ticks = IF n > 0 THEN 0
                                                 ELSE IF ran THEN @ + 1 ELSE @]
             IN  [e |-> IF u.raised THEN h ELSE render(h),
                  raised |-> u.raised, broke |-> FALSE]

\* `while game.running:` and one iteration.
CLIterate ==
    /\ engine # None /\ loop = "loop"
    /\ engine.loop_ticks < MaxLoopTicks
    /\ IF ~engine.running
       THEN /\ loop' = "returned" /\ engine' = engine /\ ret' = "None"
       ELSE \E key \in LoopKeys, confirm \in BOOLEAN, t \in ObstacleTypes :
              \E fh \in FlightHeights(t, Tier(engine.difficulty_level)) :
                LET r == loop_iteration(Begin(engine), key, confirm, t, fh)
                IN  /\ engine' = Normalize(r.e)
                    /\ ret' = IF r.raised THEN "AttributeError" ELSE "None"
                    /\ loop' = IF r.raised THEN "crashed"
                               ELSE IF r.broke THEN "returned" ELSE "loop"
    /\ op' = "loop_iteration"
    /\ UNCHANGED nonEngineVars

ConsoleLoopNext == CLIterate

SpecConsoleLoop == ConsoleLoopInit /\ [][ConsoleLoopNext]_vars

\* C28: while run_game_loop runs the game unpaused the spawner keeps
\* producing obstacles: never more than spawn_interval + 1 iterations with
\* an update pass without a spawn, and no spawn comes sooner than
\* spawn_interval iterations after the previous one.
C28_SpawnerKeepsProducing ==
    /\ []((engine # None /\ loop \in {"loop", "returned", "crashed"}) =>
             engine.loop_ticks <= engine.obstacle_spawn_interval + 1)
    /\ [][(engine # None /\ loop = "loop"
           /\ engine'.loop_spawns > engine.loop_spawns /\ engine.loop_spawns > 0) =>
             engine.loop_ticks + 1 >= engine.obstacle_spawn_interval]_vars


\* The main loop of either edition: run_game_loop or MainGame.run().
MainLoopsInit == ConsoleLoopInit \/ WindowedInit

MainLoopsNext == ConsoleLoopNext \/ WindowedNext

SpecMainLoops == MainLoopsInit /\ [][MainLoopsNext]_vars

\* C26: after a collision the main loop accepts the restart key and the
\* game is Running again with score 0: the console loop is still iterating
\* while the engine is game-over, and a frame of the windowed game that
\* takes space on the game-over screen ends with the game running, the
\* score 0 and the game-over screen gone.
C26_RestartResumes ==
    /\ []((engine # None /\ engine.game_over) => (loop = "loop" /\ engine.running))
    /\ [][(/\ game # None /\ op' = "frame"
           /\ game.game_over_visible /\ game'.games > game.games) =>
             /\ game'.game_running
             /\ game'.score = 0
             /\ ~game'.game_over_visible]_vars


\* C27: a token the windowed game spawns at a candidate position (not the
\* fallback) has a 40x40 box that intersects no inflated rect of the
\* obstacles the ObstacleManager holds in that tick.  The token's spawn x is
\* its x before the move of the same TokenManager.update call.
C27_SpawnedTokensClear ==
    (/\ game # None /\ op = "frame"
     /\ game.tokens.last.appended = 1 /\ ~game.tokens.last.fallback
     /\ game.tokens.tokens # <<>>) =>
        LET token == game.tokens.tokens[Len(game.tokens.tokens)]
            x == (token.x + (game.speed * TOKEN_SPEED_MULTIPLIER * game.frame_ms)
                               \div 1000) \div 1000
        IN  Blocking(x, token.initial_y, game.manager) = {}


\* C29: in a running tick of the windowed game the coins collected add
\* value 1 times the coin multiplier to token_score and a collected
\* powerup adds nothing; every powerup collected (halfspeed, doublegold,
\* godmode) is listed in active_powerups after the tick with its configured
\* duration (10 s, 10 s, 8 s), and a tick that collects no powerup lists no
\* new effect.
C29_CollectedTokenEffects ==
    [][(/\ game # None /\ op' = "frame"
        /\ game'.tick_score >= 0 /\ game'.games = game.games) =>
          /\ game'.token_score = game.token_score + game'.coin_value *
                 update_powerups(game, game.frame_ms).coin_multiplier
          /\ \A i \in 1 .. Len(game'.powerup_effects) :
                LET effect == game'.powerup_effects[i]
                IN  /\ effect \in DOMAIN game'.active_powerups
                    /\ game'.active_powerups[effect] = token_duration(effect)
          /\ game'.powerup_effects = <<>> =>
                DOMAIN game'.active_powerups \subseteq DOMAIN game.active_powerups]_vars


---------------------------------------------------------------------------
(* TokenManager.check_collision on the token lists a manager can hold:     *)
(* uncollected coins and powerups at, next to and away from the dino.      *)

MaxCollectTokens == 3    \* tokens in the list
MaxCollectCalls == 2     \* check_collision calls followed

\* x of a token over the dino, of one whose rect still overlaps the dino's
\* right edge by a pixel, and of one whose rect only touches it
CollectXs == {DINO_START_X, DINO_START_X + DINO_HEIGHT \div 2 + TOKEN_SIZE \div 2 - 1,
              DINO_START_X + DINO_HEIGHT \div 2 + TOKEN_SIZE \div 2}

CollectTokens ==
    {NewToken(x, W_GROUND_Y - 50, token_type) :
        x \in CollectXs, token_type \in {"coin"} \cup PowerupTypes}

\* the dino on the ground, and high in a jump
CollectDinos ==
    {NewDino, [NewDino EXCEPT !.y = 300 * 10000, !.on_ground = FALSE]}

RECURSIVE TokenLists(_)
TokenLists(n) ==
    IF n = 0 THEN {<<>>}
    ELSE TokenLists(n - 1) \cup
         {Append(l, t) : l \in {k \in TokenLists(n - 1) : Len(k) = n - 1},
                         t \in CollectTokens}

NoCollection ==
    [coin_value |-> 0, powerup_effects |-> <<>>, collected_items |-> <<>>]

CollectInit ==
    /\ token_manager \in
         {[tm |-> [NewTokenManager(MIN_SPAWN_INTERVAL_MS, MIN_POWERUP_INTERVAL_MS)
                      EXCEPT !.tokens = l],
           dino |-> NewDino, result |-> NoCollection, calls |-> 0] :
          l \in TokenLists(MaxCollectTokens)}
    /\ op = "init" /\ ret = "None"
    /\ player = None /\ jump_updates = -1
    /\ objA = None /\ objB = None /\ resAB = "unset" /\ resBA = "unset"
    /\ engine = None /\ loop = "collect" /\ game = None
    /\ difficulty_log = None /\ meta = None /\ input_handler = None

\* check_collision(dino), with the dino where the tick's update left it
CCheckCollision ==
    /\ loop = "collect" /\ token_manager # None
    /\ token_manager.calls < MaxCollectCalls
    /\ \E d \in CollectDinos :
         LET c == token_check_collision(token_manager.tm, d)
         IN  token_manager' =
                [tm |-> c.tm, dino |-> d,
                 result |-> [coin_value |-> c.coin_value,
                             powerup_effects |-> c.powerup_effects,
                             collected_items |-> c.collected_items],
                 calls |-> token_manager.calls + 1]
    /\ op' = "check_collision"
    /\ UNCHANGED <<ret, player, jump_updates, collVars, engineVars, game,
                   difficulty_log, meta, input_handler>>

CollectNext == CCheckCollision

SpecCollect == CollectInit /\ [][CollectNext]_vars

\* C30: one check_collision call takes every uncollected token whose rect
\* overlaps the dino's: each is marked collected and is gone from the list
\* exactly once (the rest stay, in order), the coin value returned is the
\* sum of the values of the coins touched, the effect list has one entry
\* per powerup touched, in list order, and no token left in the list is
\* collected or overlaps the dino.
C30_CollectsEveryTouched ==
    [][op' = "check_collision" =>
        LET before == token_manager.tm.tokens
            after == token_manager'.tm.tokens
            d == token_manager'.dino
            r == token_manager'.result
            Touched(t) == ~t.collected /\ colliderect(token_rect(t), dino_rect(d))
            Untouched(t) == ~Touched(t)
            IsCoin(t) == t.token_type = "coin"
            IsPowerup(t) == t.token_type # "coin"
            hits == SelectSeq(before, Touched)
            powerups == SelectSeq(hits, IsPowerup)
        IN  /\ after = SelectSeq(before, Untouched)
            /\ Len(after) = Len(before) - Len(hits)
            /\ r.coin_value = Len(SelectSeq(hits, IsCoin)) * token_value("coin")
            /\ Len(r.powerup_effects) = Len(powerups)
            /\ \A i \in 1 .. Len(powerups) :
                  r.powerup_effects[i] = powerups[i].token_type
            /\ Len(r.collected_items) = Len(hits)
            /\ \A i \in 1 .. Len(hits) :
                  /\ r.collected_items[i].token = [hits[i] EXCEPT !.collected = TRUE]
                  /\ r.collected_items[i].type = hits[i].token_type
            /\ \A i \in 1 .. Len(after) :
                  /\ ~after[i].collected
                  /\ ~colliderect(token_rect(after[i]), dino_rect(d))]_vars

\* A call that took a coin and a godmode token and left the token whose
\* rect only touches the dino's.
C30_Witness ==
    /\ token_manager # None /\ loop = "collect" /\ op = "check_collision"
    /\ token_manager.calls = 1
    /\ token_manager.result.coin_value = 1
    /\ token_manager.result.powerup_effects = <<"godmode">>
    /\ Len(token_manager.result.collected_items) = 2
    /\ Len(token_manager.tm.tokens) = 1
    /\ token_manager.tm.tokens[1].x =
          (DINO_START_X + DINO_HEIGHT \div 2 + TOKEN_SIZE \div 2) * 1000


\* C31: a running tick does physics, then the spawn decision, then
\* collision detection, then the score and difficulty update, then the
\* decay of the effect timers.  With the decay last, the objects of a
\* windowed tick move at the speed of the effects listed when the tick
\* began (a halfspeed that runs out in the tick still slows it), and the
\* timer of an effect collected in the tick has already lost the tick's
\* delta_time when the tick ends.
C31_TickOrder ==
    [][(/\ game # None /\ op' = "frame"
        /\ game'.tick_score >= 0 /\ game'.games = game.games) =>
          /\ "halfspeed" \in DOMAIN game.active_powerups =>
                game'.speed = (game'.base_speed * 7) \div 10
          /\ \A i \in 1 .. Len(game'.powerup_effects) :
                LET effect == game'.powerup_effects[i]
                IN  effect \in DOMAIN game'.active_powerups =>
                       game'.active_powerups[effect]
                          = token_duration(effect) - game.frame_ms]_vars


---------------------------------------------------------------------------
(* The console engine's level across restarts: initialize(), ticks through *)
(* update() as run_game_loop makes them, and restart().                    *)

LevelInit ==
    /\ engine = NewEngine(0)
    /\ loop = "idle"
    /\ op = "init" /\ ret = "None"
    /\ difficulty_log = NewLog
    /\ player = None /\ jump_updates = -1
    /\ objA = None /\ objB = None /\ resAB = "unset" /\ resBA = "unset"
    /\ game = None
    /\ token_manager = None /\ meta = None /\ input_handler = None

LInitialize == loop = "idle" /\ DInitialize

LUpdate == loop = "idle" /\ DUpdate

\* restart(); with a player it raises after the state has been reset, and
\* the exception ends the program.
LRestart ==
    /\ loop = "idle" /\ difficulty_log # None
    /\ LET r == restart(Begin(engine))
       IN  /\ engine' = r.e /\ ret' = r.ret
           /\ loop' = Outcome(r.ret = "AttributeError")
    /\ op' = "restart"
    /\ UNCHANGED <<difficulty_log, player, jump_updates, collVars, game,
                   token_manager, meta, input_handler>>

LevelNext == LInitialize \/ LUpdate \/ LRestart

SpecLevel == LevelInit /\ [][LevelNext]_vars

\* C32: at every tick boundary of the console engine, and after restart()
\* or initialize() has put the score back to 0, the difficulty level is
\* 1 + floor(score / 100), and the tier handed to the obstacle factory is
\* that level clamped to 1..4.
C32_LevelFromScore ==
    engine # None =>
        /\ engine.difficulty_level = 1 + engine.score \div DIFFICULTY_STEP
        /\ Tier(engine.difficulty_level)
              = Min(MAX_TIER, Max(1, 1 + engine.score \div DIFFICULTY_STEP))


\* C33: in a tick of the console engine every obstacle held moves left by
\* its speed, which is at least 1; the update loop goes over all of them,
\* and an obstacle whose x + width has dropped below 0 is gone from
\* _obstacles and _game_objects when the tick ends, the others staying in
\* order (so every obstacle leaves after finitely many ticks and the number
\* held stays bounded).
C33_ObstaclesScrollOut ==
    [][(/\ engine # None /\ op' = "update"
        /\ ~engine.paused /\ ~engine.game_over
        /\ \A id \in Range(engine.obstacles) : engine.objs[id].active) =>
          LET old == [i \in 1 .. Len(engine.obstacles) |->
                         engine.objs[engine.obstacles[i]]]
              moved == [i \in 1 .. Len(old) |->
                           [old[i] EXCEPT !.x = old[i].x - old[i].speed]]
              OnScreen(o) == o.x + o.width >= 0
              stay == SelectSeq(moved, OnScreen)
              new == [i \in 1 .. Len(engine'.obstacles) |->
                         engine'.objs[engine'.obstacles[i]]]
          IN  /\ \A i \in 1 .. Len(old) : old[i].speed >= 1
              /\ engine'.updated
              /\ Len(new) >= Len(stay)
              /\ SubSeq(new, 1, Len(stay)) = stay
              /\ \A i \in 1 .. Len(new) :
                    InSeq(engine'.game_objects, engine'.obstacles[i])]_vars


\* C34: in every state the console Player can reach through jump(), duck(),
\* stop_ducking() and update(), a JUMPING player is above the ground:
\* state = JUMPING implies y < ground_y.
C34_JumpingAboveGround ==
    player # None => (player.state = JUMPING => player.y < player.ground_y)


---------------------------------------------------------------------------
(* TokenManager.update called once a second with scores around the two    *)
(* powerup thresholds and every outcome of the two probability rolls.      *)

MaxTimerClock == 46000    \* milliseconds of update calls followed

TimerMs == 1000

TimerScores ==
    {0, HALFSPEED_MIN_SCORE * 1000 - 1, HALFSPEED_MIN_SCORE * 1000,
     GODMODE_MIN_SCORE * 1000 - 1, GODMODE_MIN_SCORE * 1000}

TimerDraws ==
    {TokenDraw([dx |-> COIN_MIN_OFFSET, y |-> W_GROUND_Y - 50], si,
               [dx |-> POWERUP_MAX_OFFSET, y |-> W_GROUND_Y - 150], pi,
               <<dg, gm, pick>>, 0) :
        si \in {MIN_SPAWN_INTERVAL_MS, MAX_SPAWN_INTERVAL_MS},
        pi \in {MIN_POWERUP_INTERVAL_MS, MAX_POWERUP_INTERVAL_MS},
        dg \in BOOLEAN, gm \in BOOLEAN, pick \in {"first", "last"}}

\* The arguments and draws of the last update call, kept as history.
NoCall == [score |-> 0, doublegold_roll |-> FALSE, godmode_roll |-> FALSE,
           powerup_interval |-> 0]

TimersInit ==
    /\ token_manager \in
         {[tm |-> NewTokenManager(si, pi), camera_x |-> TokenCameraX,
           call |-> NoCall, clock |-> 0] :
          si \in {MIN_SPAWN_INTERVAL_MS, MAX_SPAWN_INTERVAL_MS},
          pi \in {MIN_POWERUP_INTERVAL_MS, MAX_POWERUP_INTERVAL_MS}}
    /\ op = "init" /\ ret = "None"
    /\ player = None /\ jump_updates = -1
    /\ objA = None /\ objB = None /\ resAB = "unset" /\ resBA = "unset"
    /\ engine = None /\ loop = "timers" /\ game = None
    /\ difficulty_log = None /\ meta = None /\ input_handler = None

\* update(delta_time, speed, score, difficulty, camera_x), as MainGame.update
\* calls it: no obstacle manager.
UTokenUpdate ==
    /\ loop = "timers" /\ token_manager # None
    /\ token_manager.clock + TimerMs <= MaxTimerClock
    /\ \E score \in TimerScores, td \in TimerDraws :
         token_manager' =
            [tm |-> token_manager_update(token_manager.tm, TimerMs,
                                         START_SPEED * 1000, score, 0,
                                         token_manager.camera_x, None, td),
             camera_x |-> token_manager.camera_x,
             call |-> [score |-> score, doublegold_roll |-> td.doublegold_roll,
                       godmode_roll |-> td.godmode_roll,
                       powerup_interval |-> td.powerup_interval],
             clock |-> token_manager.clock + TimerMs]
    /\ op' = "token_update"
    /\ UNCHANGED tokenFrame

TimersNext == UTokenUpdate

SpecTimers == TimersInit /\ [][TimersNext]_vars

\* C35: when an update call finds the powerup timer due, spawn_powerup
\* creates at most one powerup token: a halfspeed only at score >= 400, a
\* godmode only at score >= 1000 (and with its roll), a doublegold only with
\* its roll, and none when none of the three is eligible; the powerup timer
\* is then 0 and the next interval is the one newly drawn, with or without
\* a token.  A call that does not find it due creates no powerup and only
\* advances the timer.  The coin timer runs by its own rule in both cases.
C35_PowerupGating ==
    [][op' = "token_update" =>
        LET tm == token_manager.tm
            after == token_manager'.tm
            call == token_manager'.call
            due == tm.powerup_spawn_timer + TimerMs >= tm.next_powerup_time
            coin_due == tm.spawn_timer + TimerMs >= tm.next_spawn_time
            IsPowerup(t) == t.token_type # "coin"
            Powerups(s) == Len(SelectSeq(s, IsPowerup))
            eligible ==
                \/ call.doublegold_roll
                \/ call.score >= HALFSPEED_MIN_SCORE * 1000
                \/ call.score >= GODMODE_MIN_SCORE * 1000 /\ call.godmode_roll
        IN  /\ due =>
                /\ after.powerup_spawn_timer = 0
                /\ after.next_powerup_time = call.powerup_interval
                /\ after.next_powerup_time \in
                      MIN_POWERUP_INTERVAL_MS .. MAX_POWERUP_INTERVAL_MS
                /\ after.last.kind = "powerup"
                /\ after.last.appended = (IF eligible THEN 1 ELSE 0)
                /\ Powerups(after.tokens) <= Powerups(tm.tokens) + after.last.appended
                /\ after.last.appended = 1 =>
                      LET token == after.tokens[Len(after.tokens)]
                      IN  /\ token.token_type \in PowerupTypes
                          /\ token.token_type = "halfspeed" =>
                                call.score >= HALFSPEED_MIN_SCORE * 1000
                          /\ token.token_type = "godmode" =>
                                /\ call.score >= GODMODE_MIN_SCORE * 1000
                                /\ call.godmode_roll
                          /\ token.token_type = "doublegold" => call.doublegold_roll
            /\ ~due =>
                /\ after.powerup_spawn_timer = tm.powerup_spawn_timer + TimerMs
                /\ after.next_powerup_time = tm.next_powerup_time
                /\ after.last.kind # "powerup"
                /\ Powerups(after.tokens) <= Powerups(tm.tokens)
            /\ after.spawn_timer = (IF coin_due THEN 0 ELSE tm.spawn_timer + TimerMs)
            /\ ~coin_due => after.next_spawn_time = tm.next_spawn_time]_vars

\* A firing at score 400 with the doublegold roll lost and the godmode roll
\* won: a halfspeed token, and the timer reset.
C35_Witness ==
    /\ token_manager # None /\ loop = "timers" /\ op = "token_update"
    /\ token_manager.call.score = HALFSPEED_MIN_SCORE * 1000
    /\ ~token_manager.call.doublegold_roll /\ token_manager.call.godmode_roll
    /\ token_manager.tm.last.kind = "powerup"
    /\ token_manager.tm.last.appended = 1
    /\ token_manager.tm.tokens[Len(token_manager.tm.tokens)].token_type = "halfspeed"
    /\ token_manager.tm.powerup_spawn_timer = 0


---------------------------------------------------------------------------
(* InputHandler.enable_raw_mode and disable_raw_mode called by the main    *)
(* thread, with the input worker running beside it.  join(timeout=1.0)     *)
(* returns when the worker has ended or when the second is over.           *)

MaxWorkers == 3     \* worker threads started
MaxRawKeys == 3     \* keys the workers put into the buffer

\* InputHandler.__init__; input_thread 0 is None, workers are numbered as
\* they are started; pc is where each live worker stands in its loop.
NewRawHandler ==
    [kind |-> "raw", raw_mode_enabled |-> FALSE, stop_input |-> FALSE,
     input_thread |-> 0, alive |-> {}, pc |-> [t \in {} |-> "test"],
     started |-> 0, keys |-> 0, main |-> "idle"]

is_alive(h) == h.input_thread # 0 /\ h.input_thread \in h.alive

\* _start_input_thread()
start_input_thread(h) ==
    IF is_alive(h) THEN h
    ELSE LET t == h.started + 1
         IN  [h EXCEPT !.stop_input = FALSE, !.input_thread = t,
                       !.alive = @ \cup {t}, !.started = t,
                       !.pc = (t :> "test") @@ @]

RawInit ==
    /\ input_handler = NewRawHandler
    /\ op = "init" /\ ret = "None"
    /\ player = None /\ jump_updates = -1
    /\ objA = None /\ objB = None /\ resAB = "unset" /\ resBA = "unset"
    /\ engine = None /\ loop = "raw" /\ game = None
    /\ difficulty_log = None /\ token_manager = None /\ meta = None

rawFrame == <<player, jump_updates, collVars, engineVars, game,
              difficulty_log, token_manager, meta>>

\* enable_raw_mode(); ok: the platform call did not raise.
REnable ==
    /\ loop = "raw" /\ input_handler.main = "idle"
    /\ \E ok \in BOOLEAN :
         IF input_handler.raw_mode_enabled
         THEN input_handler' = input_handler /\ ret' = "True"
         ELSE IF ok
         THEN /\ input_handler.started < MaxWorkers
              /\ input_handler' =
                    start_input_thread([input_handler EXCEPT !.raw_mode_enabled = TRUE])
              /\ ret' = "True"
         ELSE input_handler' = input_handler /\ ret' = "False"
    /\ op' = "enable_raw_mode"
    /\ UNCHANGED rawFrame

\* disable_raw_mode() up to join(): the early return, or _stop_input set and
\* the join entered when the worker is alive.
RDisable ==
    /\ loop = "raw" /\ input_handler.main = "idle"
    /\ IF ~input_handler.raw_mode_enabled
       THEN input_handler' = input_handler /\ ret' = "True" /\ op' = "disable_raw_mode"
       ELSE IF is_alive(input_handler)
       THEN /\ input_handler' = [input_handler EXCEPT !.stop_input = TRUE,
                                                      !.main = "join"]
            /\ ret' = "None" /\ op' = "join"
       ELSE /\ input_handler' = [input_handler EXCEPT !.stop_input = TRUE,
                                                      !.raw_mode_enabled = FALSE]
            /\ ret' = "True" /\ op' = "disable_raw_mode"
    /\ UNCHANGED rawFrame

\* join(timeout=1.0) returns, because the worker has ended or because the
\* second is over; the rest of disable_raw_mode().
RJoined ==
    /\ loop = "raw" /\ input_handler.main = "join"
    /\ \E timed_out \in BOOLEAN :
         /\ timed_out <=> is_alive(input_handler)
         /\ input_handler' = [input_handler EXCEPT !.raw_mode_enabled = FALSE,
                                                   !.main = "idle"]
    /\ op' = "disable_raw_mode" /\ ret' = "True"
    /\ UNCHANGED rawFrame

\* _input_worker: the loop test `while not self._stop_input`.
RWorkerTest ==
    /\ loop = "raw"
    /\ \E t \in input_handler.alive :
         /\ input_handler.pc[t] = "test"
         /\ input_handler' =
              IF input_handler.stop_input
              THEN [input_handler EXCEPT
                       !.alive = @ \ {t},
                       !.pc = [u \in DOMAIN @ \ {t} |-> @[u]]]
              ELSE [input_handler EXCEPT !.pc[t] = "body"]
    /\ op' = "worker_test" /\ ret' = "None"
    /\ UNCHANGED rawFrame

\* _input_worker: the loop body, _get_raw_key() with or without a key, the
\* key appended to the buffer, the sleep.
RWorkerBody ==
    /\ loop = "raw"
    /\ \E t \in input_handler.alive, key \in BOOLEAN :
         /\ input_handler.pc[t] = "body"
         /\ key => input_handler.keys < MaxRawKeys
         /\ input_handler' =
              [input_handler EXCEPT !.pc[t] = "test",
                                    !.keys = IF key THEN @ + 1 ELSE @]
    /\ op' = "worker_body" /\ ret' = "None"
    /\ UNCHANGED rawFrame

RawNext == REnable \/ RDisable \/ RJoined \/ RWorkerTest \/ RWorkerBody

SpecRawMode == RawInit /\ [][RawNext]_vars

\* C36: at most one input worker is alive at any time, and whenever
\* enable_raw_mode() has returned True (raw mode is on and no disable is
\* under way) a worker is alive and the stop flag is cleared, also after a
\* disable whose join timed out.
C36_OneLiveWorker ==
    (input_handler # None /\ loop = "raw") =>
        /\ Cardinality(input_handler.alive) <= 1
        /\ (input_handler.raw_mode_enabled /\ input_handler.main = "idle") =>
              /\ is_alive(input_handler)
              /\ ~input_handler.stop_input


\* C37: when a tick of the console engine has updated its objects and the
\* player is RUNNING on the ground, an active Cactus or Rock made by the
\* factory whose x-range overlaps the player's has been detected as a
\* collision: the game is over.
C37_GroundObstacleHits ==
    (/\ engine # None /\ op \in {"update", "run_iteration"}
     /\ engine.updated /\ engine.player # None
     /\ engine.player.state = RUNNING /\ is_on_ground(engine.player)
     /\ \E id \in Range(engine.obstacles) :
           LET o == engine.objs[id]
           IN  /\ o.kind \in {CACTUS, ROCK} /\ o.active
               /\ engine.player.x < o.x + o.width
               /\ engine.player.x + engine.player.width > o.x)
    => engine.game_over

---------------------------------------------------------------------------
(* The powerup effects of the windowed game across its games: the start    *)
(* key, activate_powerup() and update_powerups() while the game runs,      *)
(* game_over(), and new_game() from the game-over screen.                  *)

MaxEffectGames == 3    \* games played

EffectGamesInit ==
    /\ game = NewGame(250, 0)
    /\ op = "init" /\ ret = "None"
    /\ player = None /\ jump_updates = -1
    /\ objA = None /\ objB = None /\ resAB = "unset" /\ resBA = "unset"
    /\ engine = None /\ loop = "effect_games"
    /\ NoExtras

\* handle_events() with the start key: starts the game, or new_game()
GHandleEvents ==
    /\ game.game_over_visible => game.games < MaxEffectGames
    /\ \E td \in PowerupTokenDraws : game' = handle_events(game, "space", td)
    /\ op' = IF game.game_over_visible THEN "new_game" ELSE "handle_events"
    /\ ret' = "None"

\* update(): the powerup timers, only while the game runs
GUpdatePowerups ==
    /\ game.game_running
    /\ \E ms \in EffectFrameTimes : game' = update_powerups(game, ms)
    /\ op' = "update_powerups" /\ ret' = "None"

\* update(): a collected powerup, only while the game runs
GActivatePowerup ==
    /\ game.game_running
    /\ \E effect \in PowerupTypes :
          /\ game' = activate_powerup(game, effect, token_duration(effect))
          /\ ret' = effect
    /\ op' = "activate_powerup"

\* update(): the dino hit an obstacle
GGameOver ==
    /\ game.game_running
    /\ game' = game_over(game)
    /\ op' = "game_over" /\ ret' = "None"

EffectGamesNext ==
    /\ game # None /\ loop = "effect_games"
    /\ (GHandleEvents \/ GUpdatePowerups \/ GActivatePowerup \/ GGameOver)
    /\ UNCHANGED <<player, jump_updates, collVars, engineVars, extraVars>>

SpecEffectGames == EffectGamesInit /\ [][EffectGamesNext]_vars

\* C38: in every state of the windowed game the coin multiplier is 2 exactly
\* when 'doublegold' is a key of active_powerups and 1 otherwise: after the
\* activation, after the expiry, on the game-over screen and after
\* new_game(), which leaves no effect and the multiplier 1.
C38_MultiplierMatchesEffect ==
    game # None =>
        /\ game.coin_multiplier \in {1, 2}
        /\ game.coin_multiplier = 2 <=> "doublegold" \in DOMAIN game.active_powerups
        /\ op = "new_game" =>
              (game.coin_multiplier = 1 /\ DOMAIN game.active_powerups = {})

\* The second game ended while doublegold was running: game-over screen,
\* effect listed, multiplier 2, after a new_game() that had reset both.
C38_Witness ==
    /\ game # None /\ op = "game_over" /\ game.games = 2
    /\ game.game_over_visible /\ ~game.game_running
    /\ "doublegold" \in DOMAIN game.active_powerups
    /\ game.coin_multiplier = 2


---------------------------------------------------------------------------
\* What update() leaves alone while the game is not running: the score, the
\* difficulty, the obstacles, the tokens and their timers, the powerup
\* timers.
Frozen(g, h) ==
    /\ h.score = g.score /\ h.difficulty = g.difficulty
    /\ h.manager.obstacles = g.manager.obstacles
    /\ h.manager.last_obstacle_x = g.manager.last_obstacle_x
    /\ h.tokens = g.tokens
    /\ h.token_score = g.token_score
    /\ h.active_powerups = g.active_powerups

\* C39: in the windowed game game_running and a visible game-over screen are
\* never both true. Over one frame (handle_events, then update): a frame that
\* begins on the game-over screen never ends with the game running and runs
\* no tick, it either leaves the screen up and everything frozen or is
\* new_game(); a frame that begins neither running nor over either starts
\* the game or leaves everything frozen; and score, difficulty, obstacles,
\* tokens and powerup timers change only in a frame whose update ran with
\* game_running true.
C39_RunningOrOver ==
    [][(game # None /\ op' = "frame") =>
         LET g == game
             h == game'
             ticked == h.tick_score # -1
         IN  /\ ~(h.game_running /\ h.game_over_visible)
             /\ g.game_over_visible =>
                   /\ ~h.game_running /\ ~ticked
                   /\ \/ h.games = g.games /\ h.game_over_visible /\ Frozen(g, h)
                      \/ /\ h.games = g.games + 1 /\ ~h.game_over_visible
                         /\ h.score = 0 /\ h.manager.obstacles = <<>>
             /\ (~g.game_running /\ ~g.game_over_visible) =>
                   \/ ticked /\ (h.game_running \/ h.game_over_visible)
                   \/ ~ticked /\ ~h.game_running /\ ~h.game_over_visible
                      /\ Frozen(g, h)
             /\ ticked => (g.game_running \/ ~g.game_over_visible)
             /\ (~ticked /\ h.games = g.games) => Frozen(g, h)
             /\ (g.game_running /\ g.running) => ticked
       ]_vars

\* The start key was pressed on the game-over screen of a game that had
\* scored: the next game is reset and not started.
C39_Witness ==
    /\ game # None /\ op = "frame"
    /\ game.games = 2 /\ ~game.game_running /\ ~game.game_over_visible
    /\ game.score = 0 /\ game.tick_score = -1
    /\ game.high_score > 0


---------------------------------------------------------------------------
(* The observers of the console engine: add_observer(), remove_observer()  *)
(* and _notify_observers(). An observer is a number; every observer has an *)
(* on_notify, which returns, raises an Exception, or calls                 *)
(* remove_observer() on itself and returns.                                *)

MaxObservers == 3    \* observer objects

Observers == 1 .. MaxObservers

OnNotify == {"returns", "raises", "unregisters"}

EngineEvents == {"score_changed", "game_paused"}

\* GameEngine.__init__: no observers; before, how and notified are the list
\* at the start of the last event, what each on_notify did during it, and
\* the on_notify calls it made, in order.
NewObserved ==
    [observers |-> <<>>, event |-> "none", before |-> <<>>,
     how |-> [o \in Observers |-> "returns"], notified |-> <<>>]

add_observer(observers, observer) ==
    IF ~InSeq(observers, observer) THEN Append(observers, observer)
    ELSE observers

remove_observer(observers, observer) ==
    IF InSeq(observers, observer) THEN Remove(observers, observer)
    ELSE observers

\* for observer in self._observers: the list iterator reads position i of
\* the list as it is now; an Exception of on_notify is caught and printed.
RECURSIVE NotifyLoop(_, _, _, _)
NotifyLoop(observers, i, how, notified) ==
    IF i > Len(observers)
    THEN [observers |-> observers, notified |-> notified]
    ELSE LET observer == observers[i]
             after == IF how[observer] = "unregisters"
                      THEN remove_observer(observers, observer)
                      ELSE observers
         IN  NotifyLoop(after, i + 1, how, Append(notified, observer))

notify_observers(e, event, how) ==
    LET n == NotifyLoop(e.observers, 1, how, <<>>)
    IN  [observers |-> n.observers, event |-> event, before |-> e.observers,
         how |-> how, notified |-> n.notified]

ObserversInit ==
    /\ engine = NewObserved /\ loop = "observers"
    /\ op = "init" /\ ret = "None"
    /\ player = None /\ jump_updates = -1
    /\ objA = None /\ objB = None /\ resAB = "unset" /\ resBA = "unset"
    /\ game = None /\ NoExtras

observersFrame == <<player, jump_updates, collVars, loop, game, extraVars>>

OAddObserver ==
    /\ \E o \in Observers :
          engine' = [engine EXCEPT !.observers = add_observer(@, o)]
    /\ op' = "add_observer" /\ ret' = "None"
    /\ UNCHANGED observersFrame

ORemoveObserver ==
    /\ \E o \in Observers :
          engine' = [engine EXCEPT !.observers = remove_observer(@, o)]
    /\ op' = "remove_observer" /\ ret' = "None"
    /\ UNCHANGED observersFrame

\* An engine event: _notify_observers(event, data)
ONotifyObservers ==
    /\ \E event \in EngineEvents, how \in [Observers -> OnNotify] :
          engine' = notify_observers(engine, event, how)
    /\ op' = "_notify_observers" /\ ret' = "None"
    /\ UNCHANGED observersFrame

ObserversNext ==
    /\ loop = "observers"
    /\ (OAddObserver \/ ORemoveObserver \/ ONotifyObservers)

SpecObservers == ObserversInit /\ [][ObserversNext]_vars

\* C40: for every engine event the on_notify calls are exactly the
\* observers registered when the event began, each once and in registration
\* order, also when an earlier on_notify raised; no observer is listed
\* twice, and an observer that is not registered is not called.
C40_EachObserverOnce ==
    loop = "observers" =>
        /\ \A i, j \in 1 .. Len(engine.observers) :
              engine.observers[i] = engine.observers[j] => i = j
        /\ op = "_notify_observers" => engine.notified = engine.before

====
